---------------------------- MODULE Spec2Model ----------------------------
(***************************************************************************)
(* The hand-rolled WebSocket client of bin/dukascopy-api.js: the frame     *)
(* codec (wsMask, wsFrame, wsTryParseFrame), the connection controller     *)
(* (wsConnect: its socket listeners and the handle it returns) and the     *)
(* callers' message callback (cmd_ws).                                     *)
(*                                                                         *)
(* A Buffer is a sequence of bytes (0..255), 1-based: buffer[k] of the     *)
(* source is buffer[k + 1] here.  A JavaScript string is the sequence of   *)
(* its code points.                                                        *)
(***************************************************************************)
EXTENDS Integers, Sequences, FiniteSets, TLC

(***************************************************************************)
(* Bounds of the model.                                                    *)
(***************************************************************************)
\* longest payload of the exhaustively enumerated small payloads
MaxPayloadLen == 2
\* prefixes of an encoded frame are cut within MaxCut bytes of either end
MaxCut == 15
\* the server sends at most MaxFrames frames after its response
MaxFrames == 2
\* the largest --limit of cmd_ws
MaxLimit == 1
\* calls of close() and of sendText() from outside the callbacks
MaxCloseCalls == 2
MaxSends == 1

(***************************************************************************)
(* Bytes and bit operations on them.                                       *)
(***************************************************************************)
Bit(a, i) == (a \div (2 ^ i)) % 2

\* a ^ b on two bytes
Xor8(a, b) ==
    LET d(i) == ((Bit(a, i) + Bit(b, i)) % 2) * (2 ^ i)
    IN  d(0) + d(1) + d(2) + d(3) + d(4) + d(5) + d(6) + d(7)

\* buffer.slice(from, to) with 0-based from (inclusive) and to (exclusive)
Slice(buffer, from, to) == SubSeq(buffer, from + 1, to)

\* buffer.slice(from)
SliceFrom(buffer, from) == SubSeq(buffer, from + 1, Len(buffer))

\* The largest integer of the model checker.  A JavaScript number holds
\* hi * 2 ** 32 + lo exactly or rounded; every length of 2 ^ 31 or more is
\* larger than any buffer, which is all the parser asks of it.
Huge == (2 ^ 30 - 1) * 2 + 1

\* buffer.readUInt16BE(offset)
readUInt16BE(buffer, offset) == buffer[offset + 1] * 256 + buffer[offset + 2]

\* buffer.readUInt32BE(offset), clamped to Huge
readUInt32BE(buffer, offset) ==
    IF buffer[offset + 1] >= 128
    THEN Huge
    ELSE buffer[offset + 1] * (2 ^ 24) + buffer[offset + 2] * (2 ^ 16)
            + buffer[offset + 3] * 256 + buffer[offset + 4]

(***************************************************************************)
(* The frame codec.                                                        *)
(***************************************************************************)
\* the value of an absent result (null)
Null == [null |-> TRUE]

\* a mask that adds the key byte instead
wsMaskAdd(payload, maskKey) ==
    [i \in 1..Len(payload) |-> (payload[i] + maskKey[((i - 1) % 4) + 1]) % 256]

wsMask(payload, maskKey) ==
    [i \in 1..Len(payload) |-> Xor8(payload[i], maskKey[((i - 1) % 4) + 1])]

\* the bytes of payload once wsMask has returned: the loop stores into out,
\* a buffer of its own (Buffer.alloc), and only reads payload
wsMaskWrites(payload, maskKey) == payload

\* a length header whose 7-bit branch takes one length too many
wsLenHeaderOffByOne(len, maskBit) ==
    IF len <= 126
    THEN <<maskBit + len>>
    ELSE IF len <= 65535
    THEN <<maskBit + 126, (len \div 256) % 256, len % 256>>
    ELSE <<maskBit + 127, 0, 0, 0, 0,
           (len \div (2 ^ 24)) % 256, (len \div (2 ^ 16)) % 256,
           (len \div 256) % 256, len % 256>>

\* the header bytes after byte 0: the mask bit with the length field, and
\* the extended length
wsLenHeader(len, maskBit) ==
    IF len <= 125
    THEN <<maskBit + len>>
    ELSE IF len <= 65535
    THEN <<maskBit + 126, (len \div 256) % 256, len % 256>>
    ELSE LET hi == (len \div 65536) \div 65536
             lo == len
         IN  <<maskBit + 127,
               (hi \div (2 ^ 24)) % 256, (hi \div (2 ^ 16)) % 256,
               (hi \div 256) % 256, hi % 256,
               (lo \div (2 ^ 24)) % 256, (lo \div (2 ^ 16)) % 256,
               (lo \div 256) % 256, lo % 256>>

\* a wsFrame that leaves the FIN bit out of byte 0
wsFrameNoFin(opcode, payloadBuf, mask, maskKey) ==
    LET len     == Len(payloadBuf)
        maskBit == IF mask THEN 128 ELSE 0
        header  == <<opcode % 16>> \o wsLenHeader(len, maskBit)
    IN  IF mask
        THEN header \o maskKey \o wsMask(payloadBuf, maskKey)
        ELSE header \o payloadBuf

\* wsFrame(opcode, payloadBuf, mask), maskKey being the 4 bytes that
\* crypto.randomBytes(4) returned
wsFrame(opcode, payloadBuf, mask, maskKey) ==
    LET fin     == 128
        b0      == fin + (opcode % 16)
        len     == Len(payloadBuf)
        maskBit == IF mask THEN 128 ELSE 0
        header  == <<b0>> \o wsLenHeader(len, maskBit)
    IN  IF mask
        THEN header \o maskKey \o wsMask(payloadBuf, maskKey)
        ELSE header \o payloadBuf

\* the length of the frame and the offset after the length field; Null
\* when the extended length is incomplete
wsParseLen(buffer) ==
    LET len7 == buffer[2] % 128
    IN  IF len7 = 126
        THEN IF Len(buffer) < 2 + 2 THEN Null
             ELSE [len |-> readUInt16BE(buffer, 2), offset |-> 4]
        ELSE IF len7 = 127
        THEN IF Len(buffer) < 2 + 8 THEN Null
             ELSE LET hi == readUInt32BE(buffer, 2)
                      lo == readUInt32BE(buffer, 6)
                  IN  [len |-> IF hi # 0 THEN Huge ELSE lo, offset |-> 10]
        ELSE [len |-> len7, offset |-> 2]

wsTryParseFrameNoUnmask(buffer) ==
    IF Len(buffer) < 2 THEN Null
    ELSE
    LET pl == wsParseLen(buffer)
    IN  IF pl = Null THEN Null
        ELSE
        LET masked == buffer[2] >= 128
            offset == IF masked THEN pl.offset + 4 ELSE pl.offset
        IN  IF Len(buffer) - offset < pl.len THEN Null
            ELSE [frame |-> [fin     |-> buffer[1] >= 128,
                             opcode  |-> buffer[1] % 16,
                             payload |-> Slice(buffer, offset, offset + pl.len)],
                  rest  |-> SliceFrom(buffer, offset + pl.len)]

\* a parser that takes the payload bytes there are
wsTryParseFrameNoLenCheck(buffer) ==
    IF Len(buffer) < 2 THEN Null
    ELSE
    LET pl == wsParseLen(buffer)
    IN  IF pl = Null THEN Null
        ELSE
        LET masked == buffer[2] >= 128
            offset == IF masked THEN pl.offset + 4 ELSE pl.offset
        IN  IF Len(buffer) < offset THEN Null
            ELSE
            LET to      == IF Len(buffer) - offset < pl.len THEN Len(buffer)
                           ELSE offset + pl.len
                payload == Slice(buffer, offset, to)
            IN  [frame |-> [fin     |-> buffer[1] >= 128,
                            opcode  |-> buffer[1] % 16,
                            payload |-> IF masked
                                        THEN wsMask(payload,
                                                Slice(buffer, pl.offset, offset))
                                        ELSE payload],
                 rest  |-> SliceFrom(buffer, to)]

\* a parser that consumes one byte more than the frame whenever there is one
wsTryParseFrameEatsOne(buffer) ==
    LET parsed == wsTryParseFrameNoUnmask(buffer)
    IN  IF parsed = Null THEN Null
        ELSE [frame |-> [parsed.frame EXCEPT
                            !.payload = IF buffer[2] >= 128
                                        THEN wsMask(@, Slice(buffer,
                                                Len(buffer) - Len(parsed.rest)
                                                    - Len(@) - 4,
                                                Len(buffer) - Len(parsed.rest)
                                                    - Len(@)))
                                        ELSE @],
              rest  |-> IF parsed.rest = <<>> THEN <<>> ELSE Tail(parsed.rest)]

\* a parser that takes 4 key bytes and unmasks whatever the mask bit says
wsTryParseFrameAlwaysUnmask(buffer) ==
    IF Len(buffer) < 2 THEN Null
    ELSE
    LET pl == wsParseLen(buffer)
    IN  IF pl = Null THEN Null
        ELSE IF Len(buffer) < pl.offset + 4 THEN Null
        ELSE
        LET maskKey == Slice(buffer, pl.offset, pl.offset + 4)
            offset  == pl.offset + 4
        IN  IF Len(buffer) - offset < pl.len THEN Null
            ELSE [frame |-> [fin     |-> buffer[1] >= 128,
                             opcode  |-> buffer[1] % 16,
                             payload |-> wsMask(Slice(buffer, offset,
                                                      offset + pl.len),
                                                maskKey)],
                  rest  |-> SliceFrom(buffer, offset + pl.len)]

\* a parser whose rest starts at the last byte of the frame it returns
wsTryParseFrameKeepsLast(buffer) ==
    IF Len(buffer) < 2 THEN Null
    ELSE
    LET masked == buffer[2] >= 128
        pl     == wsParseLen(buffer)
    IN  IF pl = Null THEN Null
        ELSE IF masked /\ Len(buffer) < pl.offset + 4 THEN Null
        ELSE
        LET offset == IF masked THEN pl.offset + 4 ELSE pl.offset
        IN  IF Len(buffer) - offset < pl.len THEN Null
            ELSE [frame |-> [fin     |-> buffer[1] >= 128,
                             opcode  |-> buffer[1] % 16,
                             payload |->
                                 IF masked
                                 THEN wsMask(Slice(buffer, offset,
                                                   offset + pl.len),
                                             Slice(buffer, pl.offset,
                                                   pl.offset + 4))
                                 ELSE Slice(buffer, offset, offset + pl.len)],
                  rest  |-> SliceFrom(buffer, offset + pl.len - 1)]

\* wsTryParseFrame(buffer): {frame, rest}, or Null if incomplete
wsTryParseFrame(buffer) ==
    IF Len(buffer) < 2 THEN Null
    ELSE
    LET b0     == buffer[1]
        b1     == buffer[2]
        fin    == b0 >= 128
        opcode == b0 % 16
        masked == b1 >= 128
        pl     == wsParseLen(buffer)
    IN  IF pl = Null THEN Null
        ELSE IF masked /\ Len(buffer) < pl.offset + 4 THEN Null
        ELSE
        LET len     == pl.len
            maskKey == IF masked THEN Slice(buffer, pl.offset, pl.offset + 4)
                       ELSE <<>>
            offset  == IF masked THEN pl.offset + 4 ELSE pl.offset
        IN  IF Len(buffer) - offset < len THEN Null
            ELSE
            LET payload == Slice(buffer, offset, offset + len)
                rest    == SliceFrom(buffer, offset + len)
            IN  [frame |-> [fin     |-> fin,
                            opcode  |-> opcode,
                            payload |-> IF masked THEN wsMask(payload, maskKey)
                                        ELSE payload],
                 rest  |-> rest]

\* the bytes of buffer once wsTryParseFrame(buffer) has returned: payload
\* and rest are views of buffer (Buffer.slice shares its memory), and the
\* only store of the call is that of wsMask, given the payload view
wsTryParseFrameLeaves(buffer) ==
    IF Len(buffer) < 2 THEN buffer
    ELSE
    LET masked == buffer[2] >= 128
        pl     == wsParseLen(buffer)
    IN  IF pl = Null THEN buffer
        ELSE IF ~masked THEN buffer
        ELSE IF Len(buffer) < pl.offset + 4 THEN buffer
        ELSE
        LET offset == pl.offset + 4
        IN  IF Len(buffer) - offset < pl.len THEN buffer
            ELSE Slice(buffer, 0, offset)
                    \o wsMaskWrites(Slice(buffer, offset, offset + pl.len),
                                    Slice(buffer, pl.offset, offset))
                    \o SliceFrom(buffer, offset + pl.len)

(***************************************************************************)
(* Strings.  buffer.toString('utf8') decodes UTF-8 and puts U+FFFD in the  *)
(* place of every maximal ill-formed part; Buffer.from(s, 'utf8') encodes. *)
(***************************************************************************)
\* whether b has a byte at 1-based position i and it is within lo..hi
ByteIn(b, i, lo, hi) == i <= Len(b) /\ b[i] >= lo /\ b[i] <= hi

\* the first code point of the non-empty b and the number of bytes it takes
Utf8First(b) ==
    LET c    == b[1]
        bad1 == [cp |-> 65533, n |-> 1]
        \* the range of the second byte of a sequence led by c
        lo2  == IF c = 224 THEN 160 ELSE IF c = 240 THEN 144 ELSE 128
        hi2  == IF c = 237 THEN 159 ELSE IF c = 244 THEN 143 ELSE 191
    IN  IF c <= 127 THEN [cp |-> c, n |-> 1]
        ELSE IF c >= 194 /\ c <= 223
        THEN IF ByteIn(b, 2, 128, 191)
             THEN [cp |-> (c - 192) * 64 + (b[2] - 128), n |-> 2]
             ELSE bad1
        ELSE IF c >= 224 /\ c <= 239
        THEN IF ~ByteIn(b, 2, lo2, hi2) THEN bad1
             ELSE IF ~ByteIn(b, 3, 128, 191) THEN [cp |-> 65533, n |-> 2]
             ELSE [cp |-> (c - 224) * 4096 + (b[2] - 128) * 64 + (b[3] - 128),
                   n  |-> 3]
        ELSE IF c >= 240 /\ c <= 244
        THEN IF ~ByteIn(b, 2, lo2, hi2) THEN bad1
             ELSE IF ~ByteIn(b, 3, 128, 191) THEN [cp |-> 65533, n |-> 2]
             ELSE IF ~ByteIn(b, 4, 128, 191) THEN [cp |-> 65533, n |-> 3]
             ELSE [cp |-> (c - 240) * 262144 + (b[2] - 128) * 4096
                            + (b[3] - 128) * 64 + (b[4] - 128),
                   n  |-> 4]
        ELSE bad1

\* buffer.toString('utf8')
RECURSIVE Utf8Decode(_)
Utf8Decode(b) ==
    IF b = <<>> THEN <<>>
    ELSE LET d == Utf8First(b)
         IN  <<d.cp>> \o Utf8Decode(SubSeq(b, d.n + 1, Len(b)))

\* the bytes of one code point
Utf8Bytes(cp) ==
    IF cp < 128 THEN <<cp>>
    ELSE IF cp < 2048 THEN <<192 + (cp \div 64), 128 + (cp % 64)>>
    ELSE IF cp < 65536
    THEN <<224 + (cp \div 4096), 128 + ((cp \div 64) % 64), 128 + (cp % 64)>>
    ELSE <<240 + (cp \div 262144), 128 + ((cp \div 4096) % 64),
           128 + ((cp \div 64) % 64), 128 + (cp % 64)>>

\* Buffer.from(s, 'utf8')
RECURSIVE Utf8Encode(_)
Utf8Encode(s) ==
    IF s = <<>> THEN <<>>
    ELSE Utf8Bytes(Head(s)) \o Utf8Encode(Tail(s))

\* whether pat occurs in s at 0-based index i
OccursAt(s, pat, i) ==
    i + Len(pat) <= Len(s) /\ SubSeq(s, i + 1, i + Len(pat)) = pat

\* s.indexOf(pat): the 0-based index of the first occurrence, or -1
IndexOf(s, pat) ==
    LET at == {i \in 0..Len(s) : OccursAt(s, pat, i)}
    IN  IF at = {} THEN -1
        ELSE CHOOSE i \in at : \A j \in at : i <= j

\* s.includes(pat)
Includes(s, pat) == IndexOf(s, pat) >= 0


(***************************************************************************)
(* The codec on its own: an opcode, a payload, the mask flag and the mask  *)
(* key drawn are chosen, wsFrame encodes them, wsTryParseFrame parses the  *)
(* encoded bytes, then their strict prefixes or the bytes with a tail      *)
(* after them; or wsMask is applied to the payload, and again.             *)
(***************************************************************************)
VARIABLES
    cpc,    \* "input", "masked", "encoded", "parsed", "cut" or "tail";
            \* "off" outside SpecCodec
    cin,    \* the arguments of wsFrame and the mask key it draws
    enc,    \* what wsFrame returned
    out,    \* what wsTryParseFrame returned on enc
    cut,    \* length of the prefix of enc parsed last
    pre,    \* what wsTryParseFrame returned on that prefix, or on enc
            \* followed by tail
    tail,   \* the bytes put after enc
    buf,    \* the buffer of the last wsTryParseFrame call, after the call
    msk     \* wsMask: what it returned, what it returned on that, and
            \* its argument after the call

cvars == <<cpc, cin, enc, out, cut, pre, tail, buf, msk>>

\* the bytes of the small payloads
SmallBytes == {0, 97, 255}

RECURSIVE SeqsUpTo(_, _)
SeqsUpTo(S, n) ==
    IF n = 0 THEN {<<>>}
    ELSE LET shorter == SeqsUpTo(S, n - 1)
         IN  shorter \cup {Append(p, b) : p \in {q \in shorter : Len(q) = n - 1},
                                          b \in S}

SmallPayloads == SeqsUpTo(SmallBytes, MaxPayloadLen)

\* the lengths on both sides of the three length encodings
BigLens == {125, 126, 127, 65535, 65536, 70000}

Pattern(n) == [i \in 1..n |-> (i * 7 + n) % 256]

\* crypto.randomBytes(4): the keys tried
Keys == {<<0, 0, 0, 0>>, <<1, 2, 3, 255>>, <<255, 128, 64, 32>>}

Opcodes == {0, 1, 2, 8, 9, 10}

CodecInputs ==
    [opcode : Opcodes, payload : SmallPayloads, mask : BOOLEAN, key : Keys]
    \cup [opcode : {1, 2}, payload : {Pattern(n) : n \in BigLens},
          mask : BOOLEAN, key : {<<1, 2, 3, 255>>}]

\* what follows a frame in the buffer: part of a frame; a frame and more
Tails == {<<129>>, <<137, 1, 112, 129, 0>>}

CodecOff ==
    /\ cpc = "off" /\ cin = Null /\ enc = <<>> /\ out = Null
    /\ cut = 0 /\ pre = Null /\ tail = <<>> /\ buf = <<>> /\ msk = Null

(***************************************************************************)
(* The endpoint and the handshake request.                                 *)
(***************************************************************************)
\* a thrown exception
Throw == [throw |-> TRUE]

\* parseInt(digits, 10) of a string of decimal digits
RECURSIVE parseInt(_)
parseInt(ds) ==
    IF ds = <<>> THEN 0
    ELSE parseInt(SubSeq(ds, 1, Len(ds) - 1)) * 10 + ds[Len(ds)]

\* A URL as written is its scheme, its host, the digits of its port (none
\* when it has no port), its path and its query: NoQuery when it has no
\* "?", or the code points after the "?".
NoQuery == [none |-> TRUE]

\* the code points of a query that new URL writes as %XX (the query
\* percent-encode set of the special schemes)
QueryEncoded(cp) == cp <= 32 \/ cp >= 127 \/ cp \in {34, 35, 39, 60, 62}

HexDigit(d) == IF d < 10 THEN 48 + d ELSE 55 + d

\* the query as new URL serialises it
RECURSIVE PercentEncodeQuery(_)
PercentEncodeQuery(q) ==
    IF q = <<>> THEN <<>>
    ELSE (IF QueryEncoded(Head(q))
          THEN <<37, HexDigit(Head(q) \div 16), HexDigit(Head(q) % 16)>>
          ELSE <<Head(q)>>)
         \o PercentEncodeQuery(Tail(q))

\* new URL(wsUrl): protocol is the scheme with ":", port is empty when the
\* URL has none or has the default port of its scheme, pathname is "/"
\* when the URL has no path, search is empty when the URL has no query or
\* an empty one and "?" with the serialised query otherwise
newURL(wsUrl) ==
    LET default == IF wsUrl.scheme = "wss" THEN 443 ELSE 80
    IN  [protocol |-> CASE wsUrl.scheme = "ws" -> "ws:"
                        [] wsUrl.scheme = "wss" -> "wss:"
                        [] OTHER -> "http:",
         hostname |-> wsUrl.host,
         port     |-> IF wsUrl.port # <<>> /\ parseInt(wsUrl.port) = default
                      THEN <<>> ELSE wsUrl.port,
         pathname |-> IF wsUrl.path = "" THEN "/" ELSE wsUrl.path,
         search   |-> IF wsUrl.query = NoQuery THEN <<>>
                      ELSE IF wsUrl.query.text = <<>> THEN <<>>
                      ELSE <<63>> \o PercentEncodeQuery(wsUrl.query.text)]

\* a parseWsUrl that takes any scheme
parseWsUrlAnyScheme(wsUrl) ==
    LET u == newURL(wsUrl)
    IN  [secure |-> u.protocol = "wss:",
         host   |-> u.hostname,
         port   |-> IF u.port # <<>> THEN parseInt(u.port)
                    ELSE IF u.protocol = "wss:" THEN 443 ELSE 80,
         path   |-> <<IF u.pathname # "" THEN u.pathname ELSE "/", u.search>>]

\* a parseWsUrl whose default port is 80 whatever the scheme
parseWsUrlPort80(wsUrl) ==
    LET u == newURL(wsUrl)
    IN  IF ~(u.protocol = "ws:" \/ u.protocol = "wss:") THEN Throw
        ELSE [secure |-> u.protocol = "wss:",
              host   |-> u.hostname,
              port   |-> IF u.port # <<>> THEN parseInt(u.port) ELSE 80,
              path   |-> <<IF u.pathname # "" THEN u.pathname ELSE "/",
                           u.search>>]

\* parseWsUrl(wsUrl).  The path is the pair of pathname and search, the two
\* strings that the code concatenates.
parseWsUrl(wsUrl) ==
    LET u      == newURL(wsUrl)
        secure == u.protocol = "wss:"
    IN  IF ~(u.protocol = "ws:" \/ u.protocol = "wss:") THEN Throw
        ELSE [secure |-> secure,
              host   |-> u.hostname,
              port   |-> IF u.port # <<>> THEN parseInt(u.port)
                         ELSE IF secure THEN 443 ELSE 80,
              path   |-> <<IF u.pathname # "" THEN u.pathname ELSE "/",
                           u.search>>]

\* `${port}`: the decimal digits of a number, most significant first
RECURSIVE String(_)
String(n) == IF n < 10 THEN <<n>> ELSE Append(String(n \div 10), n % 10)

\* [...].join(sep): the elements with sep between each two of them; a text
\* is the sequence of its pieces, the empty text '' the empty sequence
RECURSIVE join(_, _)
join(lines, sep) ==
    IF Len(lines) = 0 THEN <<>>
    ELSE IF Len(lines) = 1 THEN lines[1]
    ELSE lines[1] \o <<sep>> \o join(Tail(lines), sep)

\* a request whose lines end with a bare line feed
wsBuildHandshakeLF(info, key) ==
    join(<< <<"GET ", info.path, " HTTP/1.1">>,
            <<"Host: ", info.host, ":", String(info.port)>>,
            <<"Upgrade: websocket">>,
            <<"Connection: Upgrade">>,
            <<"Sec-WebSocket-Key: ", key>>,
            <<"Sec-WebSocket-Version: 13">>,
            <<>>,
            <<>> >>, "\n")

\* wsBuildHandshake({host, port, path}, key): the request the client writes
\* once the socket is connected
wsBuildHandshake(info, key) ==
    join(<< <<"GET ", info.path, " HTTP/1.1">>,
            <<"Host: ", info.host, ":", String(info.port)>>,
            <<"Upgrade: websocket">>,
            <<"Connection: Upgrade">>,
            <<"Sec-WebSocket-Key: ", key>>,
            <<"Sec-WebSocket-Version: 13">>,
            <<>>,
            <<>> >>, "\r\n")

(***************************************************************************)
(* The connection: one call of wsConnect, its socket and its listeners.    *)
(***************************************************************************)
VARIABLES
    wsUrl,      \* new URL(wsUrl) of the URL the caller passes to wsConnect
    promise,    \* of wsConnect: "none" (not called), "resolved", "rejected"
    handshake,  \* the request wsBuildHandshake built
    sock,       \* "none", "connecting", "open" or "closed" ('close' emitted)
    wended,     \* socket.end() has been called
    stage,      \* 'handshake' or 'frames'
    rx,         \* the receive buffer
    count,      \* cmd_ws: messages counted
    limit,      \* cmd_ws: --limit, 0 when absent
    nclose,     \* calls of the handle's close() the caller still makes from
                \* outside the callbacks
    nsend,      \* calls of the handle's sendText() the caller still makes
    inflight,   \* bytes the server has sent and the socket has not delivered
    log,        \* what the connection did, in order: listener and callback
                \* invocations, frames decoded, socket calls
    script,     \* history: the response and the frames the server sends
    hs,         \* history: at the delivery that completed the header block,
                \* the bytes after the terminator and rx after line 424
    dlv         \* history: of the last delivery, the stage it found, the
                \* length of log, the length of rx (in stage 'frames'), the
                \* number of frames the socket had delivered whole and, when
                \* it completed the header block, where that had been cut

vars == <<wsUrl, promise, handshake, sock, wended, stage, rx, count, limit,
          nclose, nsend, inflight, log, script, hs, dlv>>

(***************************************************************************)
(* What lies beside the one connection: a pair of connections made by two  *)
(* calls of wsConnect.                                                     *)
(***************************************************************************)
VARIABLES
    conns   \* of each of two calls of wsConnect: its stage, rx and socket,
            \* what its listeners and callbacks did (log), the bytes its
            \* server has yet to deliver, and the deliveries so far (fed)

(***************************************************************************)
(* What lies beside the Node client: the MetaTrader 5 terminal with the    *)
(* Expert Advisor and the indicator that the CLI installs.                 *)
(***************************************************************************)
VARIABLES
    gv,     \* the Global Variables of the terminal: the value of each name
    ea,     \* the Expert Advisor inside PublishOrderBook: where it is (pc,
            \* at), g_seq
    ind,    \* the indicator inside OnCalculate: where it is (pc), the seq
            \* and the values LoadSnapshot has read (snap), g_lastSeq, and
            \* the snapshot it rendered last (shown)
    eaws    \* the Expert Advisor and its socket: WsUrl, g_sock, g_connected,
            \* g_rx, whether the socket is connected (linked), the bytes
            \* that arrived (wire) and those the server has yet to send
            \* (pending), and what the last timer event did (tick, last)

(***************************************************************************)
(* The commands of the CLI that keep state in files.                       *)
(***************************************************************************)
VARIABLES
    config, \* cmd_config: the content of the configuration file (data) and
            \* the command that ran last (last)
    server  \* cmd_server: the pidfile, the processes that live (alive),
            \* whether the port answers the probe (answers), the command
            \* that ran last (last) and what it printed (out)

xvars == <<gv, ea, ind, eaws, config, server>>

\* no terminal, no command run
XOff ==
    /\ gv = <<>> /\ ea = [pc |-> "off"] /\ ind = [pc |-> "off"]
    /\ eaws = Null
    /\ config = Null /\ server = Null

ovars == <<conns, xvars>>

\* nothing beside the one connection
OthersOff == conns = Null /\ XOff

allvars == <<vars, cvars, ovars>>

\* "\r\n\r\n"
CRLFCRLF == <<13, 10, 13, 10>>

\* " 101 "
Sp101Sp == <<32, 49, 48, 49, 32>>

\* emit(evt, data)
emit(c, evt, data) ==
    [c EXCEPT !.log = Append(@, [t |-> "event", evt |-> evt, data |-> data])]

\* What follows a socket.write() after socket.end(): on the next tick the
\* stream reports the error and destroys the socket, whose listeners
\* (lines 407-408) emit 'error' and 'close'.
writeAfterEnd(c) ==
    [emit(emit(c, "error", [kind |-> "write after end"]), "close", "")
        EXCEPT !.sock = "closed", !.werr = FALSE]

\* the end of the handler's turn: the next tick runs before any other event
nextTick(c) == IF c.werr /\ c.sock # "closed" THEN writeAfterEnd(c) ELSE c

\* socket.write(data): sent unless the socket has ended or is closed
socketWrite(c, data) ==
    LET ok == ~c.wended /\ c.sock # "closed"
    IN  [c EXCEPT !.log  = Append(@, [t |-> "write", data |-> data, sent |-> ok]),
                  !.werr = @ \/ (c.wended /\ c.sock # "closed")]

\* socket.end()
socketEnd(c) ==
    [c EXCEPT !.log = Append(@, [t |-> "end"]), !.wended = TRUE]

\* socket.destroy(): no further 'data'; 'close' follows
socketDestroy(c) ==
    [emit([c EXCEPT !.log = Append(@, [t |-> "destroy"])], "close", "")
        EXCEPT !.sock = "closed"]

\* a close() that destroys the socket when it had been ended before
connCloseThenDestroy(c) ==
    IF c.wended /\ c.sock # "closed"
    THEN socketDestroy([c EXCEPT !.log = Append(@, [t |-> "close()"])])
    ELSE socketEnd([c EXCEPT !.log = Append(@, [t |-> "close()"])])

\* close: () => { try { socket.end(); } catch {} }
connClose(c) ==
    socketEnd([c EXCEPT !.log = Append(@, [t |-> "close()"])])

\* the texts of the model that JSON.parse accepts: "1" and "0"
JsonTexts == {<<49>>, <<48>>}

\* the message callback of cmd_ws (tail, no --type, --instrument, --duration)
onMessage(c, text) ==
    LET c1 == [c EXCEPT !.log = Append(@, [t |-> "msg", text |-> text])]
    IN  IF text \notin JsonTexts THEN c1
        ELSE LET c2 == [c1 EXCEPT !.count = @ + 1,
                                  !.log = Append(@, [t |-> "out", text |-> text])]
             IN  IF limit # 0 /\ c2.count >= limit THEN connClose(c2) ELSE c2

\* the ping branch: socket.write(wsFrame(10, payload, true)), key being the
\* mask key that wsFrame draws
onPingNoPayload(c, payload, key) ==
    socketWrite(c, wsFrame(10, <<>>, TRUE, key))

onPing(c, payload, key) ==
    socketWrite(c, wsFrame(10, payload, TRUE, key))

\* a close branch that echoes a Close frame before it ends the socket
onCloseEcho(c) == socketEnd(socketWrite(c, wsFrame(8, <<>>, TRUE, <<0, 0, 0, 0>>)))

\* the close branch: socket.end()
onClose(c) == socketEnd(c)

\* the text branch: onMessage(payload.toString('utf8'))
onText(c, payload) == onMessage(c, Utf8Decode(payload))

\* a loop that leaves after the first text frame of a turn
RECURSIVE frameLoopOneText(_, _)
frameLoopOneText(c, ks) ==
    LET parsed == wsTryParseFrame(c.rx)
    IN  IF parsed = Null THEN c
        ELSE
        LET opcode  == parsed.frame.opcode
            payload == parsed.frame.payload
            c1 == [c EXCEPT !.rx  = parsed.rest,
                            !.log = Append(@, [t |-> "frame", frame |-> parsed.frame])]
        IN  IF opcode = 9
            THEN frameLoopOneText(onPing([c1 EXCEPT !.nk = @ + 1], payload,
                                         ks[c1.nk + 1]), ks)
            ELSE IF opcode = 8
            THEN frameLoopOneText(onClose(c1), ks)
            ELSE IF opcode = 1
            THEN onText(c1, payload)
            ELSE frameLoopOneText(c1, ks)

\* a loop that leaves at a frame it has no branch for
RECURSIVE frameLoopStopsAtOther(_, _)
frameLoopStopsAtOther(c, ks) ==
    LET parsed == wsTryParseFrame(c.rx)
    IN  IF parsed = Null THEN c
        ELSE
        LET opcode  == parsed.frame.opcode
            payload == parsed.frame.payload
            c1 == [c EXCEPT !.rx  = parsed.rest,
                            !.log = Append(@, [t |-> "frame", frame |-> parsed.frame])]
        IN  IF opcode = 9
            THEN frameLoopStopsAtOther(onPing([c1 EXCEPT !.nk = @ + 1], payload,
                                              ks[c1.nk + 1]), ks)
            ELSE IF opcode = 8
            THEN frameLoopStopsAtOther(onClose(c1), ks)
            ELSE IF opcode = 1
            THEN frameLoopStopsAtOther(onText(c1, payload), ks)
            ELSE c1

\* the frame loop of the 'data' listener; ks[i] is the mask key that the
\* i-th wsFrame call of this turn draws.  A "frame" entry of log marks each
\* frame the loop takes from rx.
RECURSIVE frameLoop(_, _)
frameLoop(c, ks) ==
    LET parsed == wsTryParseFrame(c.rx)
    IN  IF parsed = Null THEN c
        ELSE
        LET opcode  == parsed.frame.opcode
            payload == parsed.frame.payload
            c1 == [c EXCEPT !.rx  = parsed.rest,
                            !.log = Append(@, [t |-> "frame", frame |-> parsed.frame])]
        IN  IF opcode = 9
            THEN frameLoop(onPing([c1 EXCEPT !.nk = @ + 1], payload,
                                  ks[c1.nk + 1]), ks)
            ELSE IF opcode = 8
            THEN frameLoop(onClose(c1), ks)
            ELSE IF opcode = 1
            THEN frameLoop(onText(c1, payload), ks)
            ELSE frameLoop(c1, ks)

\* a 'data' listener that, in the handshake stage, looks for the header
\* block in the chunk alone
onDataChunkOnly(c, chunk, ks) ==
    LET c1 == [c EXCEPT !.rx = IF c.stage = "handshake" THEN chunk
                               ELSE @ \o chunk]
    IN  IF c1.stage = "handshake"
        THEN LET s   == Utf8Decode(c1.rx)
                 idx == IndexOf(s, CRLFCRLF)
             IN  IF idx < 0 THEN c1
                 ELSE
                 LET head == SubSeq(s, 1, idx)
                     rest == Utf8Encode(SubSeq(s, idx + 5, Len(s)))
                     c2   == [c1 EXCEPT !.rx = rest, !.rx424 = [rx |-> rest]]
                 IN  IF ~Includes(head, Sp101Sp)
                     THEN socketDestroy(emit(c2, "error",
                                             [kind |-> "handshake",
                                              head |-> head]))
                     ELSE frameLoop(emit([c2 EXCEPT !.stage = "frames"],
                                         "handshake", ""),
                                    ks)
        ELSE frameLoop(c1, ks)

\* a 'data' listener that reports the upgrade after its frame loop
onDataHandshakeLate(c, chunk, ks) ==
    LET c1 == [c EXCEPT !.rx = @ \o chunk]
    IN  IF c1.stage = "handshake"
        THEN LET s   == Utf8Decode(c1.rx)
                 idx == IndexOf(s, CRLFCRLF)
             IN  IF idx < 0 THEN c1
                 ELSE
                 LET head == SubSeq(s, 1, idx)
                     rest == Utf8Encode(SubSeq(s, idx + 5, Len(s)))
                     c2   == [c1 EXCEPT !.rx = rest, !.rx424 = [rx |-> rest]]
                 IN  IF ~Includes(head, Sp101Sp)
                     THEN socketDestroy(emit(c2, "error",
                                             [kind |-> "handshake",
                                              head |-> head]))
                     ELSE emit(frameLoop([c2 EXCEPT !.stage = "frames"], ks),
                               "handshake", "")
        ELSE frameLoop(c1, ks)

\* socket.on('data', (chunk) => ...)
onData(c, chunk, ks) ==
    LET c1 == [c EXCEPT !.rx = @ \o chunk]
    IN  IF c1.stage = "handshake"
        THEN LET s   == Utf8Decode(c1.rx)
                 idx == IndexOf(s, CRLFCRLF)
             IN  IF idx < 0 THEN c1
                 ELSE
                 LET head == SubSeq(s, 1, idx)
                     rest == Utf8Encode(SubSeq(s, idx + 5, Len(s)))
                     c2   == [c1 EXCEPT !.rx = rest, !.rx424 = [rx |-> rest]]
                 IN  IF ~Includes(head, Sp101Sp)
                     THEN socketDestroy(emit(c2, "error",
                                             [kind |-> "handshake",
                                              head |-> head]))
                     ELSE frameLoop(emit([c2 EXCEPT !.stage = "frames"],
                                         "handshake", ""),
                                    ks)
        ELSE frameLoop(c1, ks)

(***************************************************************************)
(* The server: a response header block and the frames after it.            *)
(***************************************************************************)
\* "HTTP/1.1 101 S\r\n\r\n"
Resp101 == <<72, 84, 84, 80, 47, 49, 46, 49, 32, 49, 48, 49, 32, 83,
             13, 10, 13, 10>>

\* "HTTP/1.1 200 OK\r\n\r\n"
Resp200 == <<72, 84, 84, 80, 47, 49, 46, 49, 32, 50, 48, 48, 32, 79, 75,
             13, 10, 13, 10>>

\* "HTTP/1.1 200 OK\r\nA: 101 \r\n\r\n"
Resp200Hdr101 == <<72, 84, 84, 80, 47, 49, 46, 49, 32, 50, 48, 48, 32, 79, 75,
                   13, 10, 65, 58, 32, 49, 48, 49, 32, 13, 10, 13, 10>>

\* the frames a server may send: the bytes on the wire and what they mean
ServerFrames ==
    { [bytes |-> <<129, 1, 49>>, fin |-> TRUE, opcode |-> 1, payload |-> <<49>>],
      [bytes |-> <<129, 129, 1, 2, 3, 255, 49>>,
                                   fin |-> TRUE, opcode |-> 1, payload |-> <<48>>],
      [bytes |-> <<1, 1, 49>>,     fin |-> FALSE, opcode |-> 1, payload |-> <<49>>],
      [bytes |-> <<130, 1, 49>>,   fin |-> TRUE, opcode |-> 2, payload |-> <<49>>],
      [bytes |-> <<136, 0>>,       fin |-> TRUE, opcode |-> 8, payload |-> <<>>],
      [bytes |-> <<137, 1, 112>>,  fin |-> TRUE, opcode |-> 9, payload |-> <<112>>] }

Scripts ==
    [resp : {Resp101}, frames : SeqsUpTo(ServerFrames, MaxFrames)]
    \cup [resp : {Resp200, Resp200Hdr101}, frames : SeqsUpTo(ServerFrames, 1)]

\* frames the loop has no branch for: the final Continuation "2" of a
\* fragmented message and a Pong
SilentFrames ==
    { [bytes |-> <<128, 1, 50>>,   fin |-> TRUE, opcode |-> 0, payload |-> <<50>>],
      [bytes |-> <<138, 1, 112>>,  fin |-> TRUE, opcode |-> 10, payload |-> <<112>>] }

\* the frames that come with them: the text "1", the fragment "1", the Ping
WithSilent == {f \in ServerFrames : f.bytes \in {<<129, 1, 49>>, <<1, 1, 49>>,
                                                 <<137, 1, 112>>}}

SilentScripts ==
    [resp : {Resp101},
     frames : {fs \in SeqsUpTo(SilentFrames \cup WithSilent, MaxFrames) :
                  \E i \in 1..Len(fs) : fs[i] \in SilentFrames}]

\* the bytes of a sequence of frames
RECURSIVE FrameBytes(_)
FrameBytes(fs) ==
    IF fs = <<>> THEN <<>> ELSE Head(fs).bytes \o FrameBytes(Tail(fs))

\* the URLs tried: "ws://localhost:8080/ws/market", on which the scripts
\* run, and URLs with and without port, path and query
WsLocal ==
    [scheme |-> "ws", host |-> "localhost", port |-> <<8, 0, 8, 0>>,
     path |-> "/ws/market", query |-> NoQuery]

Urls ==
    { WsLocal,
      \* "wss://example.com"
      [scheme |-> "wss", host |-> "example.com", port |-> <<>>,
       path |-> "", query |-> NoQuery],
      \* "http://localhost:8080/ws/market"
      [scheme |-> "http", host |-> "localhost", port |-> <<8, 0, 8, 0>>,
       path |-> "/ws/market", query |-> NoQuery],
      \* "ws://example.com:80/"
      [scheme |-> "ws", host |-> "example.com", port |-> <<8, 0>>,
       path |-> "/", query |-> NoQuery],
      \* "wss://example.com:80/"
      [scheme |-> "wss", host |-> "example.com", port |-> <<8, 0>>,
       path |-> "/", query |-> NoQuery],
      \* "ws://example.com:443"
      [scheme |-> "ws", host |-> "example.com", port |-> <<4, 4, 3>>,
       path |-> "", query |-> NoQuery],
      \* "wss://example.com:8443/feed?t=1"
      [scheme |-> "wss", host |-> "example.com", port |-> <<8, 4, 4, 3>>,
       path |-> "/feed", query |-> [text |-> <<116, 61, 49>>]],
      \* "ws://example.com?t=1"
      [scheme |-> "ws", host |-> "example.com", port |-> <<>>,
       path |-> "", query |-> [text |-> <<116, 61, 49>>]],
      \* "ws://example.com/feed?q=a b"
      [scheme |-> "ws", host |-> "example.com", port |-> <<>>,
       path |-> "/feed", query |-> [text |-> <<113, 61, 97, 32, 98>>]],
      \* "ws://example.com/feed?"
      [scheme |-> "ws", host |-> "example.com", port |-> <<>>,
       path |-> "/feed", query |-> [text |-> <<>>]] }

\* wsMakeKey(): crypto.randomBytes(16).toString('base64')
wsMakeKey == {"dGhlIHNhbXBsZSBub25jZQ=="}

\* the text the caller sends: "ping-test"
SendTexts == {<<112, 105, 110, 103, 45, 116, 101, 115, 116>>}

(***************************************************************************)
(* The actions.                                                            *)
(***************************************************************************)
\* the connection as the handlers see it; nk counts the mask keys drawn in
\* this turn, werr is a socket.write() after socket.end() in this turn and
\* rx424 is rx as line 424 left it in this turn
Conn ==
    [stage |-> stage, rx |-> rx, log |-> log, sock |-> sock,
     wended |-> wended, count |-> count,
     nk |-> 0, werr |-> FALSE, rx424 |-> Null]

Becomes(c) ==
    /\ stage' = c.stage
    /\ rx' = c.rx
    /\ log' = c.log
    /\ sock' = c.sock
    /\ wended' = c.wended
    /\ count' = c.count

ConnIdle ==
    /\ promise = "none" /\ handshake = Null /\ sock = "none"
    /\ wended = FALSE /\ stage = "handshake" /\ rx = <<>>
    /\ count = 0
    /\ inflight = <<>> /\ log = <<>> /\ hs = Null /\ dlv = Null

ShortScripts == {sc \in Scripts : Len(sc.frames) <= 1}

\* the runs: cmd_ws with any script and --limit, and with the scripts that
\* hold Continuation and Pong frames; a caller that closes from outside the
\* callbacks, and a caller that sends text, while the server sends a short
\* script
Scenarios ==
    [url : {WsLocal}, script : Scripts, limit : 0..MaxLimit,
     nclose : {0}, nsend : {0}]
    \cup [url : {WsLocal}, script : SilentScripts, limit : {0},
          nclose : {0}, nsend : {0}]
    \cup [url : {WsLocal}, script : ShortScripts, limit : {0},
          nclose : {MaxCloseCalls}, nsend : {0}]
    \cup [url : {WsLocal}, script : ShortScripts, limit : {0},
          nclose : {0}, nsend : {MaxSends}]
    \cup [url : Urls \ {WsLocal},
          script : {[resp |-> Resp101, frames |-> <<>>]}, limit : {0},
          nclose : {0}, nsend : {0}]

Init ==
    /\ ConnIdle
    /\ \E sn \in Scenarios :
          /\ wsUrl = sn.url
          /\ script = sn.script /\ limit = sn.limit
          /\ nclose = sn.nclose /\ nsend = sn.nsend
    /\ CodecOff
    /\ OthersOff

\* what the call of wsConnect leaves: the promise it returns and the socket
wsConnectReturnsPending(u, key) ==
    LET info == parseWsUrl(u)
    IN  IF info = Throw
        THEN [promise |-> "rejected", sock |-> "none", handshake |-> Null]
        ELSE [promise |-> "pending", sock |-> "connecting",
              handshake |-> wsBuildHandshake(info, key)]

wsConnect(u, key) ==
    LET info == parseWsUrl(u)
    IN  IF info = Throw
        THEN [promise |-> "rejected", sock |-> "none", handshake |-> Null]
        ELSE [promise |-> "resolved", sock |-> "connecting",
              handshake |-> wsBuildHandshake(info, key)]

\* the caller calls wsConnect(wsUrl, onMessage, onEvent)
WsConnect ==
    /\ cpc = "off" /\ promise = "none"
    /\ \E key \in wsMakeKey :
          LET r == wsConnect(wsUrl, key)
          IN  /\ promise' = r.promise
              /\ sock' = r.sock
              /\ handshake' = r.handshake
    /\ stage' = "handshake"
    /\ rx' = <<>>
    /\ UNCHANGED <<wsUrl, wended, count, limit, nclose, nsend, inflight,
                   log, script, hs, dlv, cvars, ovars>>

\* a 'connect' listener that writes the request twice
SocketConnectTwice ==
    /\ sock = "connecting"
    /\ LET c0 == [Conn EXCEPT !.sock = "open"]
           c1 == socketWrite(socketWrite(emit(c0, "connect", ""), handshake),
                             handshake)
           c  == nextTick(c1)
       IN  /\ Becomes(c)
           /\ inflight' = IF c1.werr THEN <<>>
                          ELSE script.resp \o FrameBytes(script.frames)
    /\ UNCHANGED <<wsUrl, promise, handshake, limit, nclose, nsend, script,
                   hs, dlv, cvars, ovars>>

\* socket.on('connect', ...); the server answers the request it receives
SocketConnect ==
    /\ sock = "connecting"
    /\ LET c0 == [Conn EXCEPT !.sock = "open"]
           c1 == socketWrite(emit(c0, "connect", ""), handshake)
           c  == nextTick(c1)
       IN  /\ Becomes(c)
           /\ inflight' = IF c1.werr THEN <<>>
                          ELSE script.resp \o FrameBytes(script.frames)
    /\ UNCHANGED <<wsUrl, promise, handshake, limit, nclose, nsend, script,
                   hs, dlv, cvars, ovars>>

\* a transport failure that leaves the socket open
SocketErrorStaysOpen ==
    /\ sock \in {"connecting", "open"}
    /\ Becomes(emit(Conn, "error", [kind |-> "transport"]))
    /\ UNCHANGED <<wsUrl, promise, handshake, limit, nclose, nsend, inflight,
                   script, hs, dlv, cvars, ovars>>

\* the transport fails: socket.on('error', ...) then, the socket having
\* destroyed itself, socket.on('close', ...)
SocketError ==
    /\ sock \in {"connecting", "open"}
    /\ Becomes([emit(emit(Conn, "error", [kind |-> "transport"]), "close", "")
                    EXCEPT !.sock = "closed"])
    /\ UNCHANGED <<wsUrl, promise, handshake, limit, nclose, nsend, inflight,
                   script, hs, dlv, cvars, ovars>>

\* a 'close' listener that connects again
PeerCloseReconnects ==
    /\ sock = "open" /\ inflight = <<>>
    /\ Becomes([emit(Conn, "close", "") EXCEPT !.sock = "connecting"])
    /\ UNCHANGED <<wsUrl, promise, handshake, limit, nclose, nsend, inflight,
                   script, hs, dlv, cvars, ovars>>

\* the server closes after its last byte: socket.on('close', ...)
PeerClose ==
    /\ sock = "open" /\ inflight = <<>>
    /\ Becomes([emit(Conn, "close", "") EXCEPT !.sock = "closed"])
    /\ UNCHANGED <<wsUrl, promise, handshake, limit, nclose, nsend, inflight,
                   script, hs, dlv, cvars, ovars>>

\* the number of the script's frames that lie whole in its first n bytes
\* after the response
RECURSIVE WholeFrames(_, _)
WholeFrames(fs, n) ==
    IF fs = <<>> \/ Len(Head(fs).bytes) > n THEN 0
    ELSE 1 + WholeFrames(Tail(fs), n - Len(Head(fs).bytes))

\* the bytes of the script's frames that the socket has delivered
StreamDelivered ==
    LET stream == FrameBytes(script.frames)
    IN  IF Len(inflight) >= Len(stream) THEN <<>>
        ELSE SubSeq(stream, 1, Len(stream) - Len(inflight))

\* the bytes after the first "\r\n\r\n" of raw
AfterTerminator(raw) == SliceFrom(raw, IndexOf(raw, CRLFCRLF) + 4)

\* of the delivery that made c of a connection whose buffer was before: when
\* it completed the header block, whether the block came whole, or was cut
\* before or inside its "\r\n\r\n"
HeaderCut(before, c) ==
    IF c.rx424 = Null THEN "none"
    ELSE IF before = <<>> THEN "whole"
    ELSE IF Len(before) + 4 <= Len(script.resp) THEN "before the terminator"
    ELSE "inside the terminator"

\* the socket delivers the next k bytes: socket.on('data', ...)
Data ==
    /\ sock = "open" /\ inflight # <<>>
    /\ \E k \in 1..Len(inflight) :
          LET chunk == SubSeq(inflight, 1, k)
              dry   == onData(Conn, chunk,
                              [i \in 1..(Len(rx) + k) |-> <<0, 0, 0, 0>>])
          IN  \E ks \in [1..dry.nk -> Keys] :
                 LET c == nextTick(onData(Conn, chunk, ks))
                 IN  /\ Becomes(c)
                     /\ inflight' = SubSeq(inflight, k + 1, Len(inflight))
                     /\ hs' = IF c.rx424 = Null THEN hs
                              ELSE [rest |-> AfterTerminator(rx \o chunk),
                                    rx   |-> c.rx424.rx]
                     /\ dlv' = [stage |-> stage, at |-> Len(log),
                                pending |-> IF stage = "frames" THEN Len(rx)
                                            ELSE 0,
                                header |-> HeaderCut(rx, c),
                                whole |-> WholeFrames(script.frames,
                                                      Len(StreamDelivered))]
    /\ UNCHANGED <<wsUrl, promise, handshake, limit, nclose, nsend, script,
                   cvars, ovars>>

\* the caller calls close() of the handle (cmd_doctor's timer, the end of
\* cmd_ws)
Close ==
    /\ promise = "resolved" /\ nclose > 0
    /\ Becomes(connClose(Conn))
    /\ nclose' = nclose - 1
    /\ UNCHANGED <<wsUrl, promise, handshake, limit, nsend, inflight, script,
                   hs, dlv, cvars, ovars>>

\* the caller calls sendText(s) of the handle
SendText ==
    /\ promise = "resolved" /\ nsend > 0
    /\ \E s \in SendTexts, key \in Keys :
          LET c0 == [Conn EXCEPT !.log = Append(@, [t |-> "sendText()",
                                                    text |-> s])]
          IN  Becomes(nextTick(socketWrite(c0,
                                  wsFrame(1, Utf8Encode(s), TRUE, key))))
    /\ nsend' = nsend - 1
    /\ UNCHANGED <<wsUrl, promise, handshake, limit, nclose, inflight, script,
                   hs, dlv, cvars, ovars>>

Next ==
    \/ WsConnect
    \/ SocketConnect
    \/ SocketError
    \/ PeerClose
    \/ Data
    \/ Close
    \/ SendText

Spec == Init /\ [][Next]_allvars
(***************************************************************************)
(* The codec on its own: the actions.                                      *)
(***************************************************************************)
InitCodec ==
    /\ ConnIdle /\ limit = 0 /\ nclose = 0 /\ nsend = 0 /\ script = Null
    /\ wsUrl = Null
    /\ cpc = "input"
    /\ cin \in CodecInputs
    /\ enc = <<>> /\ out = Null /\ cut = 0 /\ pre = Null
    /\ tail = <<>> /\ buf = <<>> /\ msk = Null
    /\ OthersOff

\* wsMask(payload, key), and wsMask of what it returned
CodecMask ==
    /\ cpc = "input" /\ cin.mask
    /\ LET once == wsMask(cin.payload, cin.key)
       IN  msk' = [once  |-> once,
                   twice |-> wsMask(once, cin.key),
                   arg   |-> wsMaskWrites(cin.payload, cin.key)]
    /\ cpc' = "masked"
    /\ UNCHANGED <<cin, enc, out, cut, pre, tail, buf, vars, ovars>>

CodecEncode ==
    /\ cpc = "input"
    /\ enc' = wsFrame(cin.opcode, cin.payload, cin.mask, cin.key)
    /\ cpc' = "encoded"
    /\ UNCHANGED <<cin, out, cut, pre, tail, buf, msk, vars, ovars>>

CodecParse ==
    /\ cpc = "encoded"
    /\ out' = wsTryParseFrame(enc)
    /\ buf' = wsTryParseFrameLeaves(enc)
    /\ cpc' = "parsed"
    /\ UNCHANGED <<cin, enc, cut, pre, tail, msk, vars, ovars>>

CutPoints(e) == {k \in 0..(Len(e) - 1) : k <= MaxCut \/ k >= Len(e) - MaxCut}

CodecParsePrefix ==
    /\ cpc = "parsed"
    /\ \E k \in CutPoints(enc) :
          /\ cut' = k
          /\ pre' = wsTryParseFrame(SubSeq(enc, 1, k))
          /\ buf' = wsTryParseFrameLeaves(SubSeq(enc, 1, k))
    /\ cpc' = "cut"
    /\ UNCHANGED <<cin, enc, out, tail, msk, vars, ovars>>

\* the encoded frame is at the front of a buffer that holds more
CodecParseTail ==
    /\ cpc = "parsed"
    /\ \E t \in Tails :
          /\ tail' = t
          /\ pre' = wsTryParseFrame(enc \o t)
          /\ buf' = wsTryParseFrameLeaves(enc \o t)
    /\ cpc' = "tail"
    /\ UNCHANGED <<cin, enc, out, cut, msk, vars, ovars>>

NextCodec ==
    \/ CodecMask
    \/ CodecEncode
    \/ CodecParse
    \/ CodecParsePrefix
    \/ CodecParseTail

SpecCodec == InitCodec /\ [][NextCodec]_allvars

(***************************************************************************)
(* The connection and the codec side by side.                              *)
(***************************************************************************)
SpecAll == (Init \/ InitCodec) /\ [][Next \/ NextCodec]_allvars

(***************************************************************************)
(* Two connections, made by two calls of wsConnect in one process.  stage  *)
(* and rx are variables of the call (let, lines 400-401) and the listeners *)
(* are closures of the call, so that each connection has its own.          *)
(***************************************************************************)
Ids == {"A", "B"}

\* the scripts of the two servers
Scripts2 ==
    { [resp |-> Resp101,
       frames |-> << [bytes |-> <<129, 1, 49>>, fin |-> TRUE, opcode |-> 1,
                      payload |-> <<49>>] >>],
      [resp |-> Resp101,
       frames |-> << [bytes |-> <<129, 129, 1, 2, 3, 255, 49>>, fin |-> TRUE,
                      opcode |-> 1, payload |-> <<48>>],
                     [bytes |-> <<129, 1, 49>>, fin |-> TRUE, opcode |-> 1,
                      payload |-> <<49>>] >>],
      [resp |-> Resp200, frames |-> <<>>] }

\* where a socket may cut the bytes of its server into deliveries: inside
\* the terminator of the header block, after it, inside the first frame
Cuts2 == {17, 18, 20}

\* the connection that a call of wsConnect has just made
Fresh(sc) ==
    [stage |-> "handshake", rx |-> <<>>, log |-> <<>>, sock |-> "connecting",
     wended |-> FALSE, count |-> 0, inflight |-> <<>>, fed |-> <<>>,
     script |-> sc]

\* a connection as its handlers see it
View2(conn) ==
    [stage |-> conn.stage, rx |-> conn.rx, log |-> conn.log,
     sock |-> conn.sock, wended |-> conn.wended, count |-> conn.count,
     nk |-> 0, werr |-> FALSE, rx424 |-> Null]

\* the handshake request of a connection, each with the key it made
Handshake2(id) ==
    wsBuildHandshake(parseWsUrl(WsLocal),
                     IF id = "A" THEN "QUFBQUFBQUFBQUFBQUFBQQ=="
                     ELSE "QkJCQkJCQkJCQkJCQkJCQg==")

\* handlers whose receive buffer is one variable of the module
OwnsSharedRx(id, c, pending, fed) ==
    conns' = [j \in Ids |->
                IF j = id
                THEN [stage |-> c.stage, rx |-> c.rx, log |-> c.log,
                      sock |-> c.sock, wended |-> c.wended,
                      count |-> c.count, inflight |-> pending,
                      fed |-> fed, script |-> conns[j].script]
                ELSE [conns[j] EXCEPT !.rx = c.rx]]

\* the handlers of connection id leave it as c: they write the variables
\* of their own call
Owns(id, c, pending, fed) ==
    conns' = [conns EXCEPT
                ![id] = [stage |-> c.stage, rx |-> c.rx, log |-> c.log,
                         sock |-> c.sock, wended |-> c.wended,
                         count |-> c.count, inflight |-> pending,
                         fed |-> fed, script |-> @.script]]

Init2 ==
    /\ ConnIdle /\ limit = 0 /\ nclose = 0 /\ nsend = 0 /\ script = Null
    /\ wsUrl = Null
    /\ CodecOff
    /\ conns \in [Ids -> {Fresh(sc) : sc \in Scripts2}]
    /\ XOff

\* socket.on('connect', ...) of connection id
SocketConnect2(id) ==
    /\ conns[id].sock = "connecting"
    /\ LET c0 == [View2(conns[id]) EXCEPT !.sock = "open"]
           c  == socketWrite(emit(c0, "connect", ""), Handshake2(id))
       IN  Owns(id, c,
                conns[id].script.resp \o FrameBytes(conns[id].script.frames),
                conns[id].fed)
    /\ UNCHANGED <<vars, cvars, xvars>>

\* socket.on('data', ...) of connection id
Data2(id) ==
    /\ conns[id].sock = "open" /\ conns[id].inflight # <<>>
    /\ LET all  == conns[id].script.resp
                        \o FrameBytes(conns[id].script.frames)
           left == conns[id].inflight
       IN  \E k \in 1..Len(left) :
              /\ Len(all) - Len(left) + k \in Cuts2 \cup {Len(all)}
              /\ LET chunk == SubSeq(left, 1, k)
                 IN  Owns(id, nextTick(onData(View2(conns[id]), chunk, <<>>)),
                          SubSeq(left, k + 1, Len(left)),
                          Append(conns[id].fed, chunk))
    /\ UNCHANGED <<vars, cvars, xvars>>

\* socket.on('error', ...), socket.on('close', ...) of connection id
SocketError2(id) ==
    /\ conns[id].sock \in {"connecting", "open"}
    /\ Owns(id, [emit(emit(View2(conns[id]), "error", [kind |-> "transport"]),
                      "close", "") EXCEPT !.sock = "closed"],
            conns[id].inflight, conns[id].fed)
    /\ UNCHANGED <<vars, cvars, xvars>>

\* socket.on('close', ...) of connection id
PeerClose2(id) ==
    /\ conns[id].sock = "open" /\ conns[id].inflight = <<>>
    /\ Owns(id, [emit(View2(conns[id]), "close", "") EXCEPT !.sock = "closed"],
            conns[id].inflight, conns[id].fed)
    /\ UNCHANGED <<vars, cvars, xvars>>

Next2 ==
    \E id \in Ids :
        \/ SocketConnect2(id)
        \/ Data2(id)
        \/ SocketError2(id)
        \/ PeerClose2(id)

Spec2 == Init2 /\ [][Next2]_allvars

(***************************************************************************)
(* The terminal: PublishOrderBook of the Expert Advisor and LoadSnapshot   *)
(* of the indicator, which run in threads of their own and meet in the     *)
(* Global Variables.  Each GlobalVariableSet and GlobalVariableGet is one  *)
(* step.                                                                   *)
(***************************************************************************)
\* input int Depth (10 by default), of the Expert Advisor and the indicator
Depth == 1

\* the order book messages the Expert Advisor publishes in a run
MaxPublish == 2

\* the value GlobalVariableGet leaves for a name that was never set
Absent == -1

\* GVPrefix(instrument) + name, and + (string)i for the levels
GVName(name, i) == <<name, i>>

RECURSIVE Levels(_)
Levels(i) ==
    IF i > Depth THEN <<>>
    ELSE <<GVName("B.P", i), GVName("B.V", i),
           GVName("A.P", i), GVName("A.V", i)>> \o Levels(i + 1)

\* the names PublishOrderBook sets before seq, in its order
WriteOrder ==
    <<GVName("ts", 0), GVName("bid", 0), GVName("ask", 0),
      GVName("depth", 0)>> \o Levels(1)

\* the names LoadSnapshot reads after seq, in its order
ReadOrder == <<GVName("bid", 0), GVName("ask", 0)>> \o Levels(1)

GVNames == {WriteOrder[i] : i \in 1..Len(WriteOrder)} \cup {GVName("seq", 0)}

\* the k-th order book message: timestamp, bid, ask and the price and the
\* volume of each level are k, with Depth levels on each side
BookValue(k, name) == IF name = GVName("depth", 0) THEN Depth ELSE k

\* GVSet(name, value)
GVSet(name, value) == gv' = [gv EXCEPT ![name] = value]

\* GVGetSafe(name, val): val keeps its 0 when the name was never set
GVGetSafe(name) == IF gv[name] = Absent THEN 0 ELSE gv[name]

InitGV ==
    /\ ConnIdle /\ limit = 0 /\ nclose = 0 /\ nsend = 0 /\ script = Null
    /\ wsUrl = Null
    /\ CodecOff
    /\ conns = Null
    /\ gv = [n \in GVNames |-> Absent]
    /\ ea = [pc |-> "idle", at |-> 0, g_seq |-> 0]
    /\ ind = [pc |-> "idle", seq |-> 0, snap |-> <<>>, g_lastSeq |-> -1,
              shown |-> <<>>]
    /\ eaws = Null
    /\ config = Null /\ server = Null

\* OnTimer pops an order book message of the instrument: PublishOrderBook
\* parses it
PublishOrderBook ==
    /\ ea.pc = "idle" /\ ea.g_seq < MaxPublish
    /\ ea' = [ea EXCEPT !.pc = "set", !.at = 1]
    /\ UNCHANGED <<gv, ind, config, server, eaws, conns, vars, cvars>>

\* the next GVSet of PublishOrderBook: ts, bid, ask, depth, then the levels
PublishGVSet ==
    /\ ea.pc = "set"
    /\ GVSet(WriteOrder[ea.at], BookValue(ea.g_seq + 1, WriteOrder[ea.at]))
    /\ ea' = IF ea.at < Len(WriteOrder) THEN [ea EXCEPT !.at = @ + 1]
             ELSE [ea EXCEPT !.pc = "seq", !.at = 0]
    /\ UNCHANGED <<ind, config, server, eaws, conns, vars, cvars>>

\* g_seq += 1.0; GVSet(pfx + "seq", g_seq), which ends PublishOrderBook
PublishSeq ==
    /\ ea.pc = "seq"
    /\ GVSet(GVName("seq", 0), ea.g_seq + 1)
    /\ ea' = [ea EXCEPT !.pc = "idle", !.g_seq = @ + 1]
    /\ UNCHANGED <<ind, config, server, eaws, conns, vars, cvars>>

\* OnCalculate calls LoadSnapshot, which reads seq and returns false when
\* there is none or it is g_lastSeq
LoadSnapshot ==
    /\ ind.pc = "idle"
    /\ gv[GVName("seq", 0)] # Absent
    /\ gv[GVName("seq", 0)] # ind.g_lastSeq
    /\ ind' = [ind EXCEPT !.pc = "get", !.seq = gv[GVName("seq", 0)],
                          !.snap = <<>>]
    /\ UNCHANGED <<gv, ea, config, server, eaws, conns, vars, cvars>>

\* the next GVGetSafe of LoadSnapshot: bid, ask, then the levels
LoadGVGet ==
    /\ ind.pc = "get" /\ Len(ind.snap) < Len(ReadOrder)
    /\ ind' = [ind EXCEPT
                 !.snap = Append(@, GVGetSafe(ReadOrder[Len(@) + 1]))]
    /\ UNCHANGED <<gv, ea, config, server, eaws, conns, vars, cvars>>

\* g_lastSeq = seq; return true, and OnCalculate renders what was read
Render ==
    /\ ind.pc = "get" /\ Len(ind.snap) = Len(ReadOrder)
    /\ ind' = [ind EXCEPT !.pc = "idle", !.g_lastSeq = ind.seq,
                          !.shown = ind.snap]
    /\ UNCHANGED <<gv, ea, config, server, eaws, conns, vars, cvars>>

NextGV ==
    \/ PublishOrderBook
    \/ PublishGVSet
    \/ PublishSeq
    \/ LoadSnapshot
    \/ LoadGVGet
    \/ Render

SpecGV == InitGV /\ [][NextGV]_allvars

(***************************************************************************)
(* The Expert Advisor and its server: OnInit, OnTimer, Connect.            *)
(***************************************************************************)
\* the frames the server sends after an upgrade
MaxEaFrames == 2

\* the most bytes of frames that one SocketRead of Connect brings with the
\* end of the response
MaxEaExtra == 3

\* a text frame "1", a text frame "0" and a Ping without payload
EaFrames == {<<129, 1, 49>>, <<129, 1, 48>>, <<137, 0>>}

\* input string WsUrl: "ws://localhost:8080/ws/market", "wss://example.com"
EaUrls ==
    { WsLocal,
      [scheme |-> "wss", host |-> "example.com", port |-> <<>>,
       path |-> "", query |-> NoQuery] }

\* ParseWsUrl(WsUrl, g_host, g_port, g_path): whether it succeeds
ParseWsUrl(url) == url.scheme = "ws" /\ url.host # ""

\* what a server answers to the request: nothing, or a response
EaResponses == {<<>>, Resp101, Resp200, Resp200Hdr101}

\* what the network does during one call of Connect: whether SocketCreate,
\* SocketConnect and SendAll succeed, the response read, and how many bytes
\* of the frames that follow it the SocketRead that brings its end brings
\* too (as many as the server has sent by then)
EaNets ==
    [created : BOOLEAN, reached : BOOLEAN, sent : BOOLEAN, resp : EaResponses,
     extra : 0..MaxEaExtra]

\* the bytes of the frames that the server sends after an upgrade
EaStream(e) == FrameBytes([i \in 1..Len(e.script) |-> [bytes |-> e.script[i]]])

\* the bytes of frames that Connect reads into respbuf after the response
EaReadWithResponse(e, net) ==
    SubSeq(EaStream(e), 1, IF net.extra < Len(EaStream(e)) THEN net.extra
                           ELSE Len(EaStream(e)))

\* Disconnect()
Disconnect(e) ==
    [e EXCEPT !.g_sock = -1, !.g_connected = FALSE, !.g_rx = <<>>,
              !.linked = FALSE, !.wire = <<>>, !.pending = <<>>]

\* a Connect that takes any response for an upgrade
ConnectAnyResponse(e, net) ==
    LET e0 == [Disconnect(e) EXCEPT
                 !.last = [did |-> "Connect", net |-> net, published |-> 0]]
    IN  IF ~ParseWsUrl(e0.WsUrl) THEN e0
        ELSE IF ~net.created THEN e0
        ELSE IF ~net.reached THEN e0
        ELSE IF ~net.sent THEN e0
        ELSE [e0 EXCEPT !.g_sock = 1, !.linked = TRUE,
                        !.g_connected = TRUE,
                        !.pending = SliceFrom(EaStream(e0),
                                        Len(EaReadWithResponse(e0, net)))]

\* Connect(): respbuf, that holds the response and all that was read with
\* it, is a local array and g_rx stays as Disconnect() left it
Connect(e, net) ==
    LET e0 == [Disconnect(e) EXCEPT
                 !.last = [did |-> "Connect", net |-> net, published |-> 0]]
    IN  IF ~ParseWsUrl(e0.WsUrl) THEN e0
        ELSE IF ~net.created THEN e0
        ELSE IF ~net.reached THEN e0
        ELSE IF ~net.sent THEN e0
        ELSE IF ~Includes(Utf8Decode(net.resp), Sp101Sp) THEN e0
        ELSE [e0 EXCEPT !.g_sock = 1, !.linked = TRUE,
                        !.g_connected = TRUE,
                        !.pending = SliceFrom(EaStream(e0),
                                        Len(EaReadWithResponse(e0, net)))]

\* ReadAvailable(), on a socket that is connected: what arrived goes to g_rx
ReadAvailable(e) == [e EXCEPT !.g_rx = @ \o e.wire, !.wire = <<>>]

RECURSIVE ReadBE(_, _, _)
ReadBE(bytes, p, k) ==
    IF k = 0 THEN 0 ELSE ReadBE(bytes, p, k - 1) * 256 + bytes[p + k]

\* TryPopWsText(msg): the result, msg and g_rx afterwards
TryPopWsText(bytes) ==
    LET n      == Len(bytes)
        fail   == [ok |-> FALSE, msg |-> <<>>, rx |-> bytes]
    IN  IF n < 2 THEN fail
        ELSE
        LET fin    == bytes[1] >= 128
            opcode == bytes[1] % 16
            masked == bytes[2] >= 128
            plen7  == bytes[2] % 128
            ext    == IF plen7 <= 125 THEN 0 ELSE IF plen7 = 126 THEN 2 ELSE 8
        IN  IF n < 2 + ext THEN fail
            ELSE
            LET payload_len == IF plen7 <= 125 THEN plen7
                               ELSE ReadBE(bytes, 2, ext)
                p == 2 + ext + (IF masked THEN 4 ELSE 0)
            IN  IF n < p THEN fail
                ELSE IF n < p + payload_len THEN fail
                ELSE
                LET raw == SubSeq(bytes, p + 1, p + payload_len)
                    payload == IF masked
                               THEN wsMask(raw, SubSeq(bytes, p - 3, p))
                               ELSE raw
                    msg == IF opcode = 1 /\ fin THEN Utf8Decode(payload)
                           ELSE <<>>
                IN  [ok |-> Len(msg) > 0, msg |-> msg,
                     rx |-> SubSeq(bytes, p + payload_len + 1, n)]

\* the loop of OnTimer: up to left times, TryPopWsText and, when it gives a
\* text, PublishOrderBook(msg)
RECURSIVE PopLoop(_, _)
PopLoop(e, left) ==
    IF left = 0 THEN e
    ELSE LET r == TryPopWsText(e.g_rx)
         IN  IF ~r.ok THEN [e EXCEPT !.g_rx = r.rx]
             ELSE PopLoop([e EXCEPT !.g_rx = r.rx,
                                    !.last.published = @ + 1], left - 1)

InitEa ==
    /\ ConnIdle /\ limit = 0 /\ nclose = 0 /\ nsend = 0 /\ script = Null
    /\ wsUrl = Null
    /\ CodecOff
    /\ conns = Null
    /\ gv = <<>> /\ ea = [pc |-> "off"] /\ ind = [pc |-> "off"]
    /\ config = Null /\ server = Null
    /\ \E url \in EaUrls, sc \in SeqsUpTo(EaFrames, MaxEaFrames) :
          eaws = [WsUrl |-> url, script |-> sc, started |-> FALSE,
                  g_sock |-> -1, g_connected |-> FALSE, g_rx |-> <<>>,
                  linked |-> FALSE, wire |-> <<>>, pending |-> <<>>,
                  tick |-> 0,
                  last |-> [did |-> "none", net |-> Null, published |-> 0]]

\* OnInit(): sets the timer and calls Connect()
OnInit ==
    /\ eaws # Null /\ ~eaws.started
    /\ \E net \in EaNets :
          eaws' = [Connect(eaws, net) EXCEPT !.started = TRUE]
    /\ UNCHANGED <<gv, ea, ind, config, server, conns, vars, cvars>>

\* OnTimer()
OnTimer ==
    /\ eaws # Null /\ eaws.started
    /\ \E net \in EaNets :
          eaws' =
            [(IF eaws.g_sock < 0 \/ ~eaws.linked \/ ~eaws.g_connected
              THEN Connect(eaws, net)
              ELSE PopLoop([ReadAvailable(eaws) EXCEPT
                              !.last = [did |-> "Read", net |-> Null,
                                        published |-> 0]], 50))
             EXCEPT !.tick = 1 - @]
    /\ UNCHANGED <<gv, ea, ind, config, server, conns, vars, cvars>>

\* bytes of the server arrive at the socket
EaArrive ==
    /\ eaws # Null /\ eaws.linked /\ eaws.pending # <<>>
    /\ \E k \in 1..Len(eaws.pending) :
          eaws' = [eaws EXCEPT
                     !.wire = @ \o SubSeq(eaws.pending, 1, k),
                     !.pending = SubSeq(@, k + 1, Len(@))]
    /\ UNCHANGED <<gv, ea, ind, config, server, conns, vars, cvars>>

\* the connection of the socket is lost
EaLinkLost ==
    /\ eaws # Null /\ eaws.linked
    /\ eaws' = [eaws EXCEPT !.linked = FALSE, !.pending = <<>>]
    /\ UNCHANGED <<gv, ea, ind, config, server, conns, vars, cvars>>

NextEa ==
    \/ OnInit
    \/ OnTimer
    \/ EaArrive
    \/ EaLinkLost

SpecEa == InitEa /\ [][NextEa]_allvars

(***************************************************************************)
(* cmd_config: 'config init' and 'config set <key> <value>' on the         *)
(* configuration file.                                                     *)
(***************************************************************************)
\* "http://localhost:8080", "http://example.com:9000",
\* "ws://example.com:9000/ws/market"
HttpLocal ==
    [scheme |-> "http", host |-> "localhost", port |-> <<8, 0, 8, 0>>,
     path |-> "", query |-> NoQuery]

HttpOther ==
    [scheme |-> "http", host |-> "example.com", port |-> <<9, 0, 0, 0>>,
     path |-> "", query |-> NoQuery]

WsOther ==
    [scheme |-> "ws", host |-> "example.com", port |-> <<9, 0, 0, 0>>,
     path |-> "/ws/market", query |-> NoQuery]

\* the keys and the values given to 'config set'
ConfigKeys == {"host", "ws", "user"}

ConfigValues == {HttpLocal, HttpOther, WsLocal, WsOther}

\* data[k] of a key the file does not have
Undefined == [undefined |-> TRUE]

\* loadConfig(cfgPath).data of a file that is missing: {}
NoConfig == [k \in ConfigKeys |-> Undefined]

\* 'config init': the defaults for host and ws where the file has none
configInit(data) ==
    [data EXCEPT !["host"] = IF @ = Undefined THEN HttpLocal ELSE @,
                 !["ws"]   = IF @ = Undefined THEN WsLocal ELSE @]

\* 'config set <k> <v>': const d = { ...data, [k]: v }
configSet(data, k, v) == [data EXCEPT ![k] = v]

InitConfig ==
    /\ ConnIdle /\ limit = 0 /\ nclose = 0 /\ nsend = 0 /\ script = Null
    /\ wsUrl = Null
    /\ CodecOff
    /\ conns = Null
    /\ gv = <<>> /\ ea = [pc |-> "off"] /\ ind = [pc |-> "off"]
    /\ eaws = Null
    /\ config = [data |-> NoConfig, last |-> [sub |-> "none"]]
    /\ server = Null

\* dukascopy-api config init
ConfigInit ==
    /\ config # Null
    /\ config' = [data |-> configInit(config.data), last |-> [sub |-> "init"]]
    /\ UNCHANGED <<gv, ea, ind, server, eaws, conns, vars, cvars>>

\* dukascopy-api config set <k> <v>
ConfigSet ==
    /\ config # Null
    /\ \E k \in ConfigKeys, v \in ConfigValues :
          config' = [data |-> configSet(config.data, k, v),
                     last |-> [sub |-> "set", k |-> k, v |-> v]]
    /\ UNCHANGED <<gv, ea, ind, server, eaws, conns, vars, cvars>>

NextConfig == ConfigInit \/ ConfigSet

SpecConfig == InitConfig /\ [][NextConfig]_allvars

(***************************************************************************)
(* cmd_server: 'server up', 'server status' and 'server down' on the       *)
(* pidfile, among processes that start and exit and a port that answers    *)
(* the probe or does not.                                                  *)
(***************************************************************************)
\* the process ids in use
MaxPid == 2

Pids == 1..MaxPid

\* no file .runtime/run/server.pid
NoPidfile == [exists |-> FALSE, pid |-> 0]

\* serverReadPid(pidPath): null (0 here) without a file or a number in it
serverReadPid(pidfile) == IF pidfile.exists THEN pidfile.pid ELSE 0

\* pidAlive(pid): process.kill(pid, 0) does not throw
pidAlive(pid, alive) == pid \in alive

\* probeRunning().ok
probeRunning(answers) == answers

\* a status that does not probe the port when there is a pidfile
serverStatusNoProbe(pidfile, alive, answers) ==
    LET pid == serverReadPid(pidfile)
    IN  IF pid # 0 /\ pidAlive(pid, alive)
        THEN [text |-> "RUNNING (managed)", pid |-> pid]
        ELSE IF ~pidfile.exists /\ probeRunning(answers)
        THEN [text |-> "RUNNING (unmanaged)", pid |-> 0]
        ELSE [text |-> "STOPPED", pid |-> 0]

\* what 'server status' prints
serverStatus(pidfile, alive, answers) ==
    LET pid == serverReadPid(pidfile)
    IN  IF pid # 0 /\ pidAlive(pid, alive)
        THEN [text |-> "RUNNING (managed)", pid |-> pid]
        ELSE IF probeRunning(answers)
        THEN [text |-> "RUNNING (unmanaged)", pid |-> 0]
        ELSE [text |-> "STOPPED", pid |-> 0]

InitServer ==
    /\ ConnIdle /\ limit = 0 /\ nclose = 0 /\ nsend = 0 /\ script = Null
    /\ wsUrl = Null
    /\ CodecOff
    /\ conns = Null
    /\ gv = <<>> /\ ea = [pc |-> "off"] /\ ind = [pc |-> "off"]
    /\ eaws = Null
    /\ config = Null
    /\ server = [pidfile |-> NoPidfile, alive |-> {}, spawned |-> {},
                 answers |-> FALSE,
                 last |-> "none", out |-> [text |-> "", pid |-> 0]]

\* a 'server up' that spawns whatever the pidfile says
ServerUpAlways ==
    /\ server # Null
    /\ \E child \in (Pids \ server.alive) \cup {0}, up \in BOOLEAN :
          server' = [server EXCEPT
             !.pidfile = [exists |-> TRUE, pid |-> child],
             !.alive = IF child = 0 THEN @ ELSE @ \cup {child},
             !.spawned = IF child = 0 THEN @ ELSE @ \cup {child},
             !.answers = @ \/ (up /\ child # 0),
             !.last = "up",
             !.out = [text |-> "OK", pid |-> child]]
    /\ UNCHANGED <<gv, ea, ind, config, eaws, conns, vars, cvars>>

\* dukascopy-api server up: nothing when the pidfile names a live process;
\* else java is spawned and String(child.pid) written, which is "undefined"
\* (pid 0 here) when java could not be spawned, and the port may answer.
\* spawned is the set of the live processes that 'server up' started.
ServerUp ==
    /\ server # Null
    /\ LET pid0 == serverReadPid(server.pidfile)
       IN  IF pid0 # 0 /\ pidAlive(pid0, server.alive)
           THEN server' = [server EXCEPT
                             !.last = "up",
                             !.out = [text |-> "OK (ja rodando)", pid |-> pid0]]
           ELSE \E child \in (Pids \ server.alive) \cup {0},
                   up \in BOOLEAN :
                   server' = [server EXCEPT
                      !.pidfile = [exists |-> TRUE, pid |-> child],
                      !.alive = IF child = 0 THEN @ ELSE @ \cup {child},
                      !.spawned = IF child = 0 THEN @ ELSE @ \cup {child},
                      !.answers = @ \/ (up /\ child # 0),
                      !.last = "up",
                      !.out = [text |-> "OK", pid |-> child]]
    /\ UNCHANGED <<gv, ea, ind, config, eaws, conns, vars, cvars>>

\* dukascopy-api server status
ServerStatus ==
    /\ server # Null
    /\ server' = [server EXCEPT
                    !.last = "status",
                    !.out = serverStatus(server.pidfile, server.alive,
                                         server.answers)]
    /\ UNCHANGED <<gv, ea, ind, config, eaws, conns, vars, cvars>>

\* dukascopy-api server down: kills the process of the pidfile and removes
\* the file; without one, removes the file when the probe fails and else
\* kills what listens on the port
ServerDown ==
    /\ server # Null
    /\ LET pid == serverReadPid(server.pidfile)
       IN  IF pid # 0 /\ pidAlive(pid, server.alive)
           THEN \E stays \in BOOLEAN :
                   server' = [server EXCEPT
                      !.alive = @ \ {pid}, !.spawned = @ \ {pid},
                      !.pidfile = NoPidfile,
                      !.answers = @ /\ stays,
                      !.last = "down",
                      !.out = [text |-> "OK (killed managed pid)",
                               pid |-> 0]]
           ELSE IF ~probeRunning(server.answers)
           THEN server' = [server EXCEPT
                      !.pidfile = NoPidfile, !.last = "down",
                      !.out = [text |-> "OK (sem pid)", pid |-> 0]]
           ELSE \E killed \in server.alive \cup {0} :
                   server' = [server EXCEPT
                      !.alive = @ \ {killed}, !.spawned = @ \ {killed},
                      !.answers = FALSE,
                      !.last = "down",
                      !.out = [text |-> "OK (killed unmanaged by port)",
                               pid |-> 0]]
    /\ UNCHANGED <<gv, ea, ind, config, eaws, conns, vars, cvars>>

\* a process exits, by itself or killed from outside the CLI
ProcessExit ==
    /\ server # Null
    /\ \E pid \in server.alive, stays \in BOOLEAN :
          server' = [server EXCEPT !.alive = @ \ {pid},
                                   !.spawned = @ \ {pid},
                                   !.answers = @ /\ stays, !.last = "none"]
    /\ UNCHANGED <<gv, ea, ind, config, eaws, conns, vars, cvars>>

\* a process starts outside the CLI and is given a free process id
ProcessStart ==
    /\ server # Null
    /\ \E pid \in Pids \ server.alive :
          server' = [server EXCEPT !.alive = @ \cup {pid}, !.last = "none"]
    /\ UNCHANGED <<gv, ea, ind, config, eaws, conns, vars, cvars>>

\* a server started outside the CLI begins to answer on the port, or the
\* server on the port stops answering
PortChanges ==
    /\ server # Null
    /\ server' = [server EXCEPT !.answers = ~@, !.last = "none"]
    /\ UNCHANGED <<gv, ea, ind, config, eaws, conns, vars, cvars>>

NextServer ==
    \/ ServerUp
    \/ ServerStatus
    \/ ServerDown
    \/ ProcessStart
    \/ ProcessExit
    \/ PortChanges

SpecServer == InitServer /\ [][NextServer]_allvars

(***************************************************************************)
(* What the claims read from the history.                                  *)
(***************************************************************************)
IsFrame(e) == e.t = "frame"

IsMsg(e) == e.t = "msg"

\* the frames the loop has decoded, in order
Decoded == [i \in 1..Len(SelectSeq(log, IsFrame)) |->
               SelectSeq(log, IsFrame)[i].frame]

\* the texts onMessage has been called with since log had n entries
MsgsSince(n) ==
    LET ms == SelectSeq(SubSeq(log, n + 1, Len(log)), IsMsg)
    IN  [i \in 1..Len(ms) |-> ms[i].text]

\* what a frame of the script means
Meaning(f) == [fin |-> f.fin, opcode |-> f.opcode, payload |-> f.payload]

\* the number of the script's frames the socket has delivered whole
Whole == WholeFrames(script.frames, Len(StreamDelivered))

\* the bytes delivered after the last whole frame
Partial ==
    SubSeq(StreamDelivered,
           Len(FrameBytes(SubSeq(script.frames, 1, Whole))) + 1,
           Len(StreamDelivered))

\* the bytes that came with the end of the header block were kept as they were
RestIntact == hs # Null /\ hs.rx = hs.rest

\* the log has an event of one of these kinds
HasEvent(kinds) ==
    \E i \in 1..Len(log) : log[i].t = "event" /\ log[i].evt \in kinds

\* socket.end() or socket.destroy() was called before entry i of log
EndedBefore(i) == \E j \in 1..(i - 1) : log[j].t \in {"end", "destroy"}

(***************************************************************************)
(* The claims.                                                             *)
(***************************************************************************)
\* C1: for every payload and every opcode in {Text = 1, Binary = 2}, parsing
\* wsFrame(opcode, payload, mask = true) returns a frame with that opcode and
\* that payload, fin = true and an empty rest, whatever mask key was drawn.
C1_RoundTrip ==
    (cpc \in {"parsed", "cut"} /\ cin.mask /\ cin.opcode \in {1, 2}) =>
        /\ out # Null
        /\ out.frame.opcode = cin.opcode
        /\ out.frame.payload = cin.payload
        /\ out.frame.fin = TRUE
        /\ out.rest = <<>>

C1_Witness ==
    /\ cpc = "parsed" /\ cin.mask /\ cin.opcode = 2
    /\ Len(cin.payload) = 65536
    /\ out # Null /\ out.frame.payload = cin.payload

\* C2: the bytes that the delivery completing the response carries after
\* the "\r\n\r\n" terminator are the receive buffer at the start of
\* streaming, byte for byte.
C2_RestRetained == hs # Null => hs.rx = hs.rest

\* C3: wsTryParseFrame returns null on every strict prefix of an encoded
\* frame, and however the bytes of the server's frames are split into
\* deliveries, the frames decoded so far are exactly the frames delivered
\* whole, each once, and the receive buffer is the part of the next frame
\* delivered so far, on which the parser returns null.
C3_IncrementalFeed ==
    /\ cpc = "cut" => pre = Null
    /\ (cpc = "off" /\ stage = "frames" /\ RestIntact) =>
          /\ Decoded = [i \in 1..Whole |-> Meaning(script.frames[i])]
          /\ rx = Partial
          /\ wsTryParseFrame(rx) = Null

\* a frame of which a part was pending is completed by a later delivery and
\* decoded once
C3_Witness ==
    /\ cpc = "off" /\ stage = "frames" /\ RestIntact
    /\ dlv.stage = "frames" /\ dlv.pending > 0
    /\ Whole = dlv.whole + 1
    /\ Len(Decoded) = Whole
    /\ rx = <<>>

\* the frames that the last delivery completed
Completed == SubSeq(script.frames, dlv.whole + 1, Whole)

IsTextFrame(f) == f.opcode = 1

\* C4: when one delivery in the streaming stage completes text frames (none
\* of them a fragment with FIN = 0), onMessage is invoked during that
\* delivery once per text frame, in the order of the frames in the byte
\* stream.
C4_BatchedInOrder ==
    (/\ stage = "frames" /\ RestIntact /\ dlv.stage = "frames"
     /\ \A i \in 1..Len(Completed) :
           Completed[i].opcode = 1 => Completed[i].fin) =>
        MsgsSince(dlv.at) =
            [i \in 1..Len(SelectSeq(Completed, IsTextFrame)) |->
                Utf8Decode(SelectSeq(Completed, IsTextFrame)[i].payload)]

\* one delivery brought the text frames "1" and "0" and both were dispatched
C4_Witness ==
    /\ stage = "frames" /\ RestIntact /\ dlv.stage = "frames"
    /\ dlv.pending = 0
    /\ Len(Completed) = 2
    /\ \A i \in 1..2 : Completed[i].opcode = 1 /\ Completed[i].fin
    /\ MsgsSince(dlv.at) = << <<49>>, <<48>> >>

\* the first line of a header block
StatusLine(resp) == SubSeq(resp, 1, IndexOf(resp, <<13, 10>>))

\* C5: for every response whose status line does not contain " 101 ",
\* whatever the other header lines contain, the connection never enters the
\* frames stage nor emits 'handshake', and it reports the failure through
\* the error event once the header block is complete.
C5_RejectsNon101 ==
    ~Includes(StatusLine(script.resp), Sp101Sp) =>
        /\ stage # "frames"
        /\ ~HasEvent({"handshake"})
        /\ hs # Null => HasEvent({"error"})

\* C6: while streaming (before any socket.end() or socket.destroy()), each
\* decoded Ping frame with payload P is followed at once by exactly one
\* socket write, of a frame with opcode 10, FIN and the mask bit set and
\* unmasked payload P, which the socket sends; after any Ping the write is
\* made at once, and neither onMessage nor a second write follows it.
C6_PingPong ==
    \A i \in 1..Len(log) :
        (log[i].t = "frame" /\ log[i].frame.opcode = 9) =>
            /\ i + 1 <= Len(log)
            /\ log[i + 1].t = "write"
            /\ LET p == wsTryParseFrame(log[i + 1].data)
               IN  /\ p # Null
                   /\ p.rest = <<>>
                   /\ p.frame.opcode = 10
                   /\ p.frame.fin
                   /\ p.frame.payload = log[i].frame.payload
            /\ log[i + 1].data[2] >= 128
            /\ ~EndedBefore(i) => log[i + 1].sent
            /\ i + 2 <= Len(log) => log[i + 2].t \notin {"write", "msg"}

\* a Ping "p" was answered and the frame after it in the same delivery was
\* decoded after the pong was written
C6_Witness ==
    \E i \in 1..Len(log) :
        /\ log[i].t = "frame" /\ log[i].frame.opcode = 9
        /\ log[i].frame.payload = <<112>>
        /\ i + 2 <= Len(log)
        /\ log[i + 1].t = "write" /\ log[i + 1].sent
        /\ log[i + 2].t = "frame"
        /\ dlv.at < i

\* C7: onMessage is invoked exactly once for each decoded frame with opcode
\* 1 and FIN = 1, and never for a frame with FIN = 0 or another opcode.
C7_OnlyFinalText ==
    \A i \in 1..Len(log) :
        /\ log[i].t = "msg" =>
              /\ i > 1
              /\ log[i - 1].t = "frame"
              /\ log[i - 1].frame.opcode = 1
              /\ log[i - 1].frame.fin
        /\ (log[i].t = "frame" /\ log[i].frame.opcode = 1 /\ log[i].frame.fin) =>
              /\ i + 1 <= Len(log)
              /\ log[i + 1].t = "msg"

\* C8: after a frame with opcode 8 has been decoded, no later frame is
\* dispatched to onMessage and no frame is written to the socket.
C8_NothingAfterCloseFrame ==
    \A i \in 1..Len(log) :
        (log[i].t = "frame" /\ log[i].frame.opcode = 8) =>
            \A j \in (i + 1)..Len(log) :
                /\ log[j].t # "msg"
                /\ ~(log[j].t = "write" /\ log[j].sent)

\* C9: after close() has been called, the receive buffer is discarded and
\* onMessage is invoked no more, neither for bytes delivered afterwards nor
\* for the frames pending in the delivery in which close() was called.
C9_CloseStopsMessages ==
    \A i \in 1..Len(log) :
        log[i].t = "close()" =>
            /\ rx = <<>>
            /\ \A j \in (i + 1)..Len(log) : log[j].t # "msg"

HeaderOf(e) == SubSeq(e, 1, Len(e) - Len(cin.payload))

\* C11: when wsTryParseFrame(buffer) returns {frame, rest}, buffer is the
\* header bytes, the mask key if there is one and as many payload bytes as
\* the length says, followed by rest, which is the tail after that one
\* frame; when it returns null nothing is consumed; in both cases the bytes
\* of buffer are after the call what they were before it.
C11_ConsumesOneFrame ==
    /\ cpc = "tail" =>
          /\ pre # Null
          /\ pre.rest = tail
          /\ Len(enc \o tail)
                = Len(HeaderOf(enc)) + Len(pre.frame.payload) + Len(pre.rest)
          /\ pre.frame = out.frame
          /\ enc \o tail
                = HeaderOf(enc)
                    \o (IF cin.mask THEN wsMask(pre.frame.payload, cin.key)
                        ELSE pre.frame.payload)
                    \o pre.rest
          /\ buf = enc \o tail
    /\ cpc = "parsed" => (out # Null /\ out.rest = <<>> /\ buf = enc)
    /\ cpc = "cut" => (pre = Null /\ buf = SubSeq(enc, 1, cut))

\* a masked frame followed by a Ping frame and two bytes was parsed: the
\* payload came out unmasked and the five bytes are the rest
C11_Witness ==
    /\ cpc = "tail" /\ cin.mask /\ cin.key = <<1, 2, 3, 255>>
    /\ Len(cin.payload) = 126
    /\ tail = <<137, 1, 112, 129, 0>>
    /\ pre # Null /\ pre.rest = tail /\ pre.frame.payload = cin.payload
    /\ buf = enc \o tail

\* the big-endian number in bytes from..to (1-based) of e
RECURSIVE BigEndian(_, _, _)
BigEndian(e, from, to) ==
    IF to < from THEN 0 ELSE BigEndian(e, from, to - 1) * 256 + e[to]

\* C12: wsFrame puts the payload length L in the 7-bit field when
\* L <= 125, the sentinel 126 and L in 16 bits big-endian when
\* 126 <= L <= 65535, the sentinel 127 and L in 64 bits big-endian when
\* L >= 65536, and wsTryParseFrame gets exactly L payload bytes back from
\* each of the three.
C12_LengthBranches ==
    cpc \in {"parsed", "cut", "tail"} =>
        LET L     == Len(cin.payload)
            field == enc[2] % 128
            key   == IF cin.mask THEN 4 ELSE 0
        IN  /\ L <= 125 => (field = L /\ Len(enc) = 2 + key + L)
            /\ (126 <= L /\ L <= 65535) =>
                  /\ field = 126
                  /\ BigEndian(enc, 3, 4) = L
                  /\ Len(enc) = 4 + key + L
            /\ L >= 65536 =>
                  /\ field = 127
                  /\ BigEndian(enc, 3, 6) = 0
                  /\ BigEndian(enc, 7, 10) = L
                  /\ Len(enc) = 10 + key + L
            /\ out # Null
            /\ Len(out.frame.payload) = L
            /\ out.frame.payload = cin.payload

\* 126 bytes, the first length of the 16-bit branch, came back
C12_Witness ==
    /\ cpc = "parsed" /\ Len(cin.payload) = 126
    /\ enc[2] % 128 = 126 /\ enc[3] = 0 /\ enc[4] = 126
    /\ out # Null /\ Len(out.frame.payload) = 126

\* C13: for every payload and every 4-byte key, wsMask applied twice with
\* the same key gives the payload back; wsMask returns as many bytes as it
\* was given and leaves the bytes of its argument as they were.
C13_MaskInvolution ==
    cpc = "masked" =>
        /\ msk.twice = cin.payload
        /\ Len(msk.once) = Len(cin.payload)
        /\ msk.arg = cin.payload
        /\ \A i \in 1..Len(cin.payload) : msk.once[i] \in 0..255

\* a payload longer than the key was changed by the mask and came back
C13_Witness ==
    /\ cpc = "masked" /\ cin.key = <<1, 2, 3, 255>>
    /\ Len(cin.payload) = 125
    /\ msk.once # cin.payload
    /\ msk.once[5] # cin.payload[5]
    /\ msk.twice = cin.payload

\* C14: when a Close frame (opcode 8) is decoded, the next thing the
\* connection does is socket.end(), which ends the local half; it writes
\* nothing to the socket in response and does not call onMessage for the
\* frame.
C14_CloseFrameNoEcho ==
    \A i \in 1..Len(log) :
        (log[i].t = "frame" /\ log[i].frame.opcode = 8) =>
            /\ i + 1 <= Len(log)
            /\ log[i + 1].t = "end"
            /\ i + 2 <= Len(log) => log[i + 2].t \notin {"write", "msg"}
            /\ wended

\* a Close frame ended the local half of an open socket, and the only
\* write of the connection is the handshake request
C14_Witness ==
    /\ sock = "open" /\ wended /\ rx = <<>> /\ inflight = <<>>
    /\ \E i \in 1..Len(log) :
          /\ log[i].t = "frame" /\ log[i].frame.opcode = 8
          /\ i + 1 = Len(log) /\ log[i + 1].t = "end"
          /\ \A j \in 1..Len(log) : log[j].t = "write" => j = 2
          /\ log[1].t = "event" /\ log[1].evt = "connect"

\* the caller's call of close() from outside the callbacks
IsCloseCall == nclose' = nclose - 1

\* the log has a "close()" entry before the event evt and one after it
ClosedAround(evt1, evt2) ==
    \E i, j, k, l \in 1..Len(log) :
        /\ i < j /\ j < k /\ k < l
        /\ log[i].t = "close()"
        /\ log[j].t = "event" /\ log[j].evt = evt1
        /\ log[k].t = "event" /\ log[k].evt = evt2
        /\ log[l].t = "close()"

\* C15: close() never raises and does nothing but socket.end(): whatever
\* the state of the connection (connecting, handshaking, streaming,
\* transport closed), a call emits no event, writes nothing and changes
\* nothing but the ended flag of the socket, so that a call after the first
\* leaves the connection as it was.  The same holds of the calls that the
\* message callback makes: each is socket.end() and nothing else.
C15_CloseIdempotent ==
    /\ [][IsCloseCall =>
            /\ log' = log \o << [t |-> "close()"], [t |-> "end"] >>
            /\ wended'
            /\ UNCHANGED <<wsUrl, promise, handshake, sock, stage, rx, count,
                           limit, nsend, inflight, script, hs, dlv>>
            /\ wended => UNCHANGED wended]_allvars
    /\ [](\A i \in 1..Len(log) :
            log[i].t = "close()" =>
                /\ i + 1 <= Len(log)
                /\ log[i + 1].t = "end")

\* close() was called while connecting and again after the transport had
\* closed
C15_Witness ==
    /\ nclose = 0 /\ sock = "closed" /\ wended
    /\ ClosedAround("connect", "close")

\* C16: for a URL whose scheme is neither ws: nor wss:, wsConnect fails
\* (its promise is rejected) and there is no socket, no byte written and no
\* call of onEvent or onMessage, then or later; a ws: or wss: URL is not
\* rejected.
C16_InvalidSchemeNoIO ==
    cpc = "off" =>
        /\ wsUrl.scheme \notin {"ws", "wss"} =>
              /\ promise \in {"none", "rejected"}
              /\ sock = "none"
              /\ handshake = Null
              /\ log = <<>>
              /\ inflight = <<>>
              /\ stage = "handshake" /\ rx = <<>> /\ ~wended
        /\ wsUrl.scheme \in {"ws", "wss"} => promise # "rejected"

\* wsConnect("http://localhost:8080/ws/market", ...) has been called
C16_Witness ==
    /\ cpc = "off" /\ wsUrl.scheme = "http"
    /\ promise = "rejected" /\ sock = "none" /\ log = <<>>

\* entry i of log is the 'error' event of a transport failure
IsTransportError(i) ==
    /\ log[i].t = "event" /\ log[i].evt = "error"
    /\ log[i].data = [kind |-> "transport"]

\* C17: a transport failure is reported by one 'error' event, the only one
\* of the connection, followed by 'close'; after it no frame is decoded,
\* onMessage is not called, nothing is sent on the socket, and there is no
\* second 'connect' nor another handshake request.
C17_TransportErrorOnce ==
    \A i \in 1..Len(log) :
        IsTransportError(i) =>
            /\ sock = "closed"
            /\ i + 1 <= Len(log)
            /\ log[i + 1].t = "event" /\ log[i + 1].evt = "close"
            /\ \A j \in 1..Len(log) :
                  (log[j].t = "event" /\ log[j].evt = "error") => j = i
            /\ \A j \in (i + 2)..Len(log) :
                  /\ log[j].t \notin {"msg", "frame", "event"}
                  /\ log[j].t = "write" => ~log[j].sent

\* the transport failed while streaming, with a byte of the server's frame
\* undelivered, and the caller's sendText after the failure sent nothing
C17_Witness ==
    /\ stage = "frames" /\ sock = "closed" /\ inflight # <<>>
    /\ \E i \in 1..Len(log) :
          /\ IsTransportError(i)
          /\ \E j \in 1..(i - 1) :
                log[j].t = "event" /\ log[j].evt = "handshake"
          /\ \E j \in (i + 1)..Len(log) : log[j].t = "write" /\ ~log[j].sent

\* entry i of log is the event evt
IsEvent(i, evt) == log[i].t = "event" /\ log[i].evt = evt

\* the entries of log that are the event evt
EventsAt(evt) == {i \in 1..Len(log) : IsEvent(i, evt)}

\* C18: the 'connect' event is followed at once by the one write of the
\* handshake request (sent unless the caller had ended the socket before
\* it connected); every other write is a frame, written for a Ping or for
\* sendText; 'connect' and 'handshake' are emitted at most once, 'handshake'
\* when the stage becomes 'frames'; and the stage never goes back from
\* 'frames' to 'handshake'.
C18_OneHandshake ==
    /\ [](cpc = "off" =>
            /\ Cardinality(EventsAt("connect")) <= 1
            /\ Cardinality(EventsAt("handshake")) <= 1
            /\ (stage = "frames") = (EventsAt("handshake") # {})
            /\ \A i \in 1..Len(log) :
                  /\ IsEvent(i, "connect") =>
                        /\ i + 1 <= Len(log)
                        /\ log[i + 1].t = "write"
                        /\ log[i + 1].data = handshake
                        /\ ~EndedBefore(i) => log[i + 1].sent
                  /\ log[i].t = "write" =>
                        /\ i > 1
                        /\ \/ IsEvent(i - 1, "connect")
                           \/ log[i - 1].t = "sendText()"
                           \/ (log[i - 1].t = "frame"
                               /\ log[i - 1].frame.opcode = 9))
    /\ [][stage = "frames" => stage' = "frames"]_allvars

\* the request was sent once after 'connect', the response was accepted,
\* and a later delivery in the stage 'frames' brought a message
C18_Witness ==
    /\ stage = "frames" /\ sock = "open"
    /\ IsEvent(1, "connect")
    /\ log[2].t = "write" /\ log[2].data = handshake /\ log[2].sent
    /\ Cardinality(EventsAt("handshake")) = 1
    /\ dlv.stage = "frames"
    /\ MsgsSince(dlv.at) # <<>>

\* entry i of log is a write of a frame: a write other than that of the
\* handshake request
IsFrameWrite(i) ==
    /\ log[i].t = "write"
    /\ i > 1
    /\ ~IsEvent(i - 1, "connect")

\* what the frame written at entry i carries: the text given to sendText,
\* or the payload of the Ping that the write answers
WrittenFor(i) ==
    IF log[i - 1].t = "sendText()"
    THEN [opcode |-> 1, payload |-> Utf8Encode(log[i - 1].text)]
    ELSE [opcode |-> 10, payload |-> log[i - 1].frame.payload]

\* C19: every frame the client writes, for sendText and for a Ping, has
\* byte 0 = 0x80 + opcode (FIN set, reserved bits clear), the mask bit
\* 0x80 set in byte 1 with the payload length in the other seven bits, then
\* the 4 bytes of the mask key, then the payload, each byte XORed with the
\* key byte at its index modulo 4; sendText("ping-test") starts with 0x81.
C19_ClientFrameLayout ==
    \A i \in 1..Len(log) :
        IsFrameWrite(i) =>
            LET d == log[i].data
                w == WrittenFor(i)
            IN  /\ d[1] = 128 + w.opcode
                /\ d[2] = 128 + Len(w.payload)
                /\ Len(d) = 2 + 4 + Len(w.payload)
                /\ \A j \in 1..Len(w.payload) :
                      d[6 + j] = Xor8(w.payload[j], d[3 + ((j - 1) % 4)])
                /\ log[i - 1].t = "sendText()" => d[1] = 129

\* sendText("ping-test") wrote a frame under the key 01 02 03 FF, and the
\* socket sent it
C19_Witness ==
    \E i \in 1..Len(log) :
        /\ IsFrameWrite(i) /\ log[i].sent
        /\ log[i - 1].t = "sendText()"
        /\ log[i - 1].text = <<112, 105, 110, 103, 45, 116, 101, 115, 116>>
        /\ SubSeq(log[i].data, 1, 6) = <<129, 137, 1, 2, 3, 255>>
        /\ log[i].data[7] = 113

\* entry i of log ends the connection: an 'error' event (a transport
\* failure, a failed handshake, a failed write), a decoded Close frame or
\* the 'close' event
IsEnding(i) ==
    \/ IsEvent(i, "error")
    \/ IsEvent(i, "close")
    \/ (log[i].t = "frame" /\ log[i].frame.opcode = 8)

\* C20: the call of wsConnect opens one socket and nothing opens another:
\* a socket starts connecting only in that call, a closed socket stays
\* closed, and after an error, a failed handshake, a Close frame or the
\* transport's close there is no 'connect' event and no write of the
\* handshake request.
C20_NoReconnect ==
    /\ [][sock' = "connecting" =>
            (sock = "connecting" \/ (sock = "none" /\ promise = "none"))]_allvars
    /\ [][sock = "closed" => sock' = "closed"]_allvars
    /\ [](\A i \in 1..Len(log) :
            IsEnding(i) =>
                \A j \in (i + 1)..Len(log) :
                    /\ ~IsEvent(j, "connect")
                    /\ ~(log[j].t = "write" /\ IsEvent(j - 1, "connect")))

\* the handshake failed, the socket was destroyed with bytes of the server
\* undelivered, and the connection stays closed
C20_Witness ==
    /\ sock = "closed" /\ stage = "handshake" /\ inflight # <<>>
    /\ Len(log) = 5
    /\ IsEvent(1, "connect")
    /\ IsEvent(3, "error") /\ log[3].data.kind = "handshake"
    /\ log[4].t = "destroy"
    /\ IsEvent(5, "close")

\* the data handler run on the deliveries chunks, one after the other
RECURSIVE Replay(_, _)
Replay(c, chunks) ==
    IF chunks = <<>> THEN c
    ELSE Replay(onData(c, Head(chunks), <<>>), Tail(chunks))

\* the texts onMessage was called with, of a log
MsgsOf(l) ==
    LET ms == SelectSeq(l, IsMsg)
    IN  [i \in 1..Len(ms) |-> ms[i].text]

\* what a connection would be, had it been alone with its deliveries
Alone(id) ==
    Replay([View2(Fresh(conns[id].script)) EXCEPT !.sock = "open"],
           conns[id].fed)

\* C21: of two connections made by two calls of wsConnect, a socket event
\* of one leaves the other as it was - its stage, its receive buffer, and
\* no callback of it invoked - and the stage, the receive buffer and the
\* messages dispatched of each are those that its own deliveries give,
\* whatever happened on the other in between.
C21_Independent ==
    /\ [][\A id \in Ids :
            conns'[id] # conns[id] =>
                \A other \in Ids \ {id} : conns'[other] = conns[other]]_allvars
    /\ [](conns # Null =>
            \A id \in Ids :
                /\ conns[id].stage = Alone(id).stage
                /\ conns[id].rx = Alone(id).rx
                /\ MsgsOf(conns[id].log) = MsgsOf(Alone(id).log))

\* B got its response, then a part of its frame, then the rest of it, and
\* dispatched the message, with A in the stage 'frames' beside it
C21_Witness ==
    /\ conns # Null
    /\ Len(conns["B"].fed) = 3 /\ Len(conns["B"].fed[2]) = 2
    /\ Len(conns["A"].fed) = 1
    /\ conns["A"].stage = "frames"
    /\ conns["B"].script.resp = Resp101 /\ Len(conns["B"].script.frames) = 1
    /\ conns["A"].script.resp = Resp101 /\ Len(conns["A"].script.frames) = 2
    /\ conns["B"].rx = <<>>
    /\ MsgsOf(conns["B"].log) = << <<49>> >>

\* what the claim says of secure, host, port and pathname of the endpoint
\* that the request was built from
EndpointOf(info) ==
    /\ info.secure = (wsUrl.scheme = "wss")
    /\ info.host = wsUrl.host
    /\ info.port = IF wsUrl.port # <<>> THEN parseInt(wsUrl.port)
                   ELSE IF wsUrl.scheme = "wss" THEN 443 ELSE 80
    /\ info.path[1] = IF wsUrl.path = "" THEN "/" ELSE wsUrl.path
    /\ SubSeq(handshake, 1, 3) = <<"GET ", info.path, " HTTP/1.1">>
    /\ SubSeq(handshake, 5, 8) =
          <<"Host: ", info.host, ":", String(info.port)>>
    /\ wsUrl = WsLocal =>
          info = [secure |-> FALSE, host |-> "localhost", port |-> 8080,
                  path |-> <<"/ws/market", <<>> >>]

Requests == {log[i + 1].data : i \in {j \in 1..(Len(log) - 1) :
                                       IsEvent(j, "connect")}}

\* C23: the request the client writes is exactly "GET <path> HTTP/1.1",
\* "Host: <host>:<port>", "Upgrade: websocket", "Connection: Upgrade",
\* "Sec-WebSocket-Key: <key>" and "Sec-WebSocket-Version: 13", each line
\* ended by CRLF, then one empty line, where <path>, <host> and <port> are
\* those parseWsUrl returns for the URL and <key> is the key drawn.
C23_HandshakeRequest ==
    (cpc = "off" /\ HasEvent({"connect"})) =>
        LET info == parseWsUrl(wsUrl)
        IN  \E key \in wsMakeKey :
                Requests =
                   {<<"GET ", info.path, " HTTP/1.1", "\r\n",
                      "Host: ", info.host, ":", String(info.port), "\r\n",
                      "Upgrade: websocket", "\r\n",
                      "Connection: Upgrade", "\r\n",
                      "Sec-WebSocket-Key: ", key, "\r\n",
                      "Sec-WebSocket-Version: 13", "\r\n",
                      "\r\n">>}

\* the request for wss://example.com:8443/feed?t=1 was written:
\* "GET /feed?t=1 HTTP/1.1", "Host: example.com:8443", ..., 19 parts
C23_Witness ==
    /\ cpc = "off" /\ Len(log) >= 2
    /\ IsEvent(1, "connect") /\ log[2].t = "write" /\ log[2].sent
    /\ Len(log[2].data) = 19
    /\ log[2].data[2] = <<"/feed", <<63, 116, 61, 49>> >>
    /\ log[2].data[8] = <<8, 4, 4, 3>>
    /\ log[2].data[18] = "\r\n" /\ log[2].data[19] = "\r\n"


\* the messages cmd_ws has printed (tail) or written to the file (dump)
Emitted == SelectSeq(log, LAMBDA e : e.t = "out")

\* C24: with --limit N, whatever the batching of the text messages into
\* deliveries, at most N messages are printed or written.
C24_LimitStops ==
    (cpc = "off" /\ limit # 0) => Len(Emitted) <= limit


\* C25: seq is a commit marker: for every interleaving of PublishOrderBook
\* with LoadSnapshot, a snapshot the indicator accepts and renders holds the
\* values of one single publish, never a mix of two.
C25_NoTornRead ==
    (ind.pc # "off" /\ ind.shown # <<>>) =>
        \E k \in 1..MaxPublish :
            \A i \in 1..Len(ind.shown) : ind.shown[i] = k


\* C26: after 'config set host <url>' the ws value of the stored
\* configuration points at the host and the port of the new host value.
C26_WsFollowsHost ==
    (config # Null /\ config.last.sub = "set" /\ config.last.k = "host") =>
        /\ config.data["host"] = config.last.v
        /\ config.data["ws"] # Undefined
        /\ config.data["ws"].host = config.last.v.host
        /\ config.data["ws"].port = config.last.v.port


\* the pidfile names a live process
Managed ==
    /\ server.pidfile.exists
    /\ server.pidfile.pid \in server.alive

No101 == ~Includes(eaws.last.net.resp, <<49, 48, 49>>)

\* C28: when the response to the upgrade request holds no 101, or the socket
\* was not connected, Connect leaves the Expert Advisor disconnected; a
\* timer event that finds it disconnected, or its socket not connected,
\* calls Connect again and reads no frame; and no frame is processed while
\* g_connected is false.
C28_Reconnects ==
    /\ [](eaws # Null =>
            /\ (eaws.last.did = "Connect" /\
                (No101 \/ ~eaws.last.net.reached)) =>
                  (~eaws.g_connected /\ eaws.g_sock = -1 /\ eaws.g_rx = <<>>)
            /\ eaws.last.published > 0 =>
                  (eaws.last.did = "Read" /\ eaws.g_connected))
    /\ [][(eaws # Null /\ eaws'.tick # eaws.tick /\
           (~eaws.g_connected \/ ~eaws.linked)) =>
             (eaws'.last.did = "Connect" /\ eaws'.last.published = 0)]_allvars

\* the first timer event found the Expert Advisor disconnected and called
\* Connect again, which read "HTTP/1.1 200 OK" and left it disconnected
C28_Witness ==
    /\ eaws # Null /\ eaws.tick = 1
    /\ eaws.last.did = "Connect" /\ eaws.last.net.reached /\ eaws.last.net.sent
    /\ eaws.last.net.created /\ eaws.last.net.resp = Resp200
    /\ ParseWsUrl(eaws.WsUrl)
    /\ ~eaws.g_connected /\ eaws.g_sock = -1


\* C29: whenever the 'data' listener has returned and the stage is 'frames',
\* the receive buffer holds no complete frame: wsTryParseFrame(rx) is null,
\* every frame that was complete having been taken out within the delivery.
C29_Drained ==
    (cpc = "off" /\ stage = "frames") => wsTryParseFrame(rx) = Null

\* a delivery in the frames stage completed a frame, which was taken out of
\* rx, and brought the first bytes of the next, which stay in rx
C29_Witness ==
    /\ cpc = "off" /\ stage = "frames" /\ dlv.stage = "frames"
    /\ rx # <<>> /\ inflight # <<>>
    /\ \E i \in (dlv.at + 1)..Len(log) : log[i].t = "frame"


\* the 'handshake' events of a log, and the responses that its handshake
\* errors report
IsHandshakeEvent(e) == e.t = "event" /\ e.evt = "handshake"

IsHandshakeError(e) ==
    /\ e.t = "event" /\ e.evt = "error"
    /\ e.data.kind = "handshake"

Accepted(l) == Len(SelectSeq(l, IsHandshakeEvent))

Refused(l) ==
    LET es == SelectSeq(l, IsHandshakeError)
    IN  [i \in 1..Len(es) |-> es[i].data.head]

\* the bytes of the header block that the socket has delivered
HeaderDelivered ==
    LET n == Len(script.resp) + Len(FrameBytes(script.frames)) - Len(inflight)
    IN  IF n < Len(script.resp) THEN n ELSE Len(script.resp)

\* the connection after one delivery that is the whole header block
OneDelivery ==
    onData([stage |-> "handshake", rx |-> <<>>, log |-> <<>>,
            sock |-> "open", wended |-> FALSE, count |-> 0,
            nk |-> 0, werr |-> FALSE, rx424 |-> Null],
           script.resp, <<>>)

\* C30: however the header block of the response is split into deliveries,
\* also inside its "\r\n\r\n", the connection stays in the stage
\* 'handshake', rx holding what has arrived, with neither 'handshake' nor a
\* handshake error emitted and the socket not destroyed, until the
\* terminator is complete; then the stage, the 'handshake' event or the
\* error with its response, and the destroying of the socket are those of
\* one delivery of the whole block.
C30_ChunkingIndependent ==
    (/\ cpc = "off" /\ Len(log) >= 2
     /\ IsEvent(1, "connect") /\ log[2].t = "write" /\ log[2].sent) =>
        IF HeaderDelivered < Len(script.resp)
        THEN /\ stage = "handshake"
             /\ rx = SubSeq(script.resp, 1, HeaderDelivered)
             /\ Accepted(log) = 0 /\ Refused(log) = <<>>
             /\ \A i \in 1..Len(log) : log[i].t # "destroy"
        ELSE /\ stage = OneDelivery.stage
             /\ Accepted(log) = Accepted(OneDelivery.log)
             /\ Refused(log) = Refused(OneDelivery.log)
             /\ (\E i \in 1..Len(log) : log[i].t = "destroy") <=>
                   (OneDelivery.sock = "closed")

\* the response "HTTP/1.1 101 S\r\n\r\n" came in deliveries of which the
\* last began inside the terminator, and 'handshake' was emitted once
C30_Witness ==
    /\ cpc = "off" /\ script.resp = Resp101
    /\ stage = "frames" /\ Accepted(log) = 1
    /\ dlv.stage = "handshake" /\ dlv.header = "inside the terminator"


IsErrorEvent(e) == e.t = "event" /\ e.evt = "error"

\* the header block of the response, without its "\r\n\r\n"
HeaderText == SubSeq(script.resp, 1, IndexOf(script.resp, CRLFCRLF))

\* what C31 asks of a connection whose handshake has failed
FailedOnce ==
    /\ Len(SelectSeq(log, IsErrorEvent)) = 1
    /\ Refused(log) = <<HeaderText>>
    /\ \E i \in 1..Len(log) : log[i].t = "destroy"
    /\ sock = "closed"
    /\ stage = "handshake"
    /\ Accepted(log) = 0
    /\ MsgsOf(log) = <<>>

\* C31: once the header block of a response whose status line has no " 101 "
\* is complete, exactly one 'error' event has been emitted, with the header
\* text, the socket has been destroyed, and 'handshake' is never emitted,
\* onMessage never invoked and the stage never 'frames', whatever bytes
\* followed the header block.
C31_FailureTerminal ==
    (cpc = "off" /\ hs # Null
     /\ ~Includes(StatusLine(script.resp), Sp101Sp)) => FailedOnce

\* the same of the responses that hold " 101 " in no line
C31_RefusedTerminal ==
    (cpc = "off" /\ hs # Null /\ ~Includes(HeaderText, Sp101Sp)) => FailedOnce


\* the opcodes the loop has no branch for that the claim names: Continuation,
\* Binary, Pong
SilentOps == {0, 2, 10}

IsSilent(e) == IsFrame(e) /\ e.frame.opcode \in SilentOps

\* the frames taken from rx since log had n entries
FramesSince(n) ==
    LET fs == SelectSeq(SubSeq(log, n + 1, Len(log)), IsFrame)
    IN  [i \in 1..Len(fs) |-> fs[i].frame]

\* in one turn of the listener nothing is done for a silent frame: the next
\* thing done is the taking of the next frame, or the turn ends (and then
\* the only thing that may follow is the report of a write after end() that
\* an earlier Ping of the turn caused)
SilentInTurn ==
    \A i \in (Len(log) + 1)..Len(log') :
        IsSilent(log'[i]) =>
            \/ i = Len(log')
            \/ IsFrame(log'[i + 1])
            \/ /\ log'[i + 1] = [t |-> "event", evt |-> "error",
                                 data |-> [kind |-> "write after end"]]
               /\ \E j \in (Len(log) + 1)..(i - 1) : log'[j].t = "write"

\* every frame that a delivery completes is taken from rx in that delivery
AllTaken ==
    (stage = "frames" /\ RestIntact /\ dlv.stage = "frames") =>
        FramesSince(dlv.at) = [i \in 1..Len(Completed) |-> Meaning(Completed[i])]

\* every message is the payload of the one text frame taken just before it
OneFramePerMsg ==
    \A i \in 1..Len(log) :
        IsMsg(log[i]) =>
            /\ i > 1 /\ IsFrame(log[i - 1]) /\ log[i - 1].frame.opcode = 1
            /\ log[i].text = Utf8Decode(log[i - 1].frame.payload)

\* C32: a Binary, Continuation or Pong frame is taken from rx without a call
\* of onMessage or onEvent and without a write to the socket; the frames
\* that follow it in the same delivery are decoded and dispatched; and no
\* message is made of more than one frame.
C32_SilentFrames ==
    /\ [][SilentInTurn]_vars
    /\ [](AllTaken /\ OneFramePerMsg)

\* one delivery brought a Continuation or Pong frame and then the text "1",
\* and the text was dispatched
C32_Witness ==
    /\ dlv # Null /\ dlv.stage = "frames"
    /\ \E i \in 1..Len(log) :
          /\ i > dlv.at /\ i + 2 <= Len(log)
          /\ IsFrame(log[i]) /\ log[i].frame.opcode \in {0, 10}
          /\ IsFrame(log[i + 1]) /\ log[i + 1].frame.opcode = 1
          /\ log[i + 2] = [t |-> "msg", text |-> <<49>>]


\* what the parser returned for the encoded frame, alone or before a tail
Parsed == IF cpc = "tail" THEN pre ELSE out

\* C33: the parser unmasks exactly when the mask bit of the wire frame is
\* set.  With mask bit 0 the payload is the wire payload bytes as they are
\* and the rest starts right after them (no key bytes are taken), so parsing
\* wsFrame(op, p, mask = false) returns p; with mask bit 1 byte i of the
\* payload is the wire byte XOR key byte (i mod 4), the key being the 4
\* bytes before the payload.
C33_MaskWhenSet ==
    cpc \in {"parsed", "tail"} =>
        LET wire == enc \o tail
            n    == Len(cin.payload)
            bit  == enc[2] >= 128
            h    == Len(enc) - n - (IF bit THEN 4 ELSE 0)
        IN  /\ Parsed # Null
            /\ Len(Parsed.frame.payload) = n
            /\ Parsed.rest = tail
            /\ IF ~bit
               THEN /\ Parsed.frame.payload = SubSeq(wire, h + 1, h + n)
                    /\ Parsed.frame.payload = cin.payload
               ELSE \A i \in 1..n :
                       Parsed.frame.payload[i] =
                           Xor8(wire[h + 4 + i], wire[h + ((i - 1) % 4) + 1])

\* an unmasked frame with a payload of two bytes, followed by more bytes,
\* was parsed: the payload came back as it was sent and the rest is what
\* followed
C33_Witness ==
    /\ cpc = "tail" /\ ~cin.mask /\ enc[2] < 128
    /\ Len(cin.payload) = 2 /\ tail # <<>>
    /\ pre # Null /\ pre.frame.payload = cin.payload /\ pre.rest = tail


\* C34: no WebSocket frame is written before the upgrade is complete: every
\* write that is not the handshake request (a frame of sendText or a Pong)
\* comes after the 'handshake' event, so the handshake request is the first
\* thing written.
C34_NoFrameBeforeStreaming ==
    \A i \in 1..Len(log) :
        IsFrameWrite(i) => \E j \in 1..(i - 1) : IsEvent(j, "handshake")


\* entry i of log is the write of the Pong that answers a Ping
IsPongWrite(i) ==
    /\ log[i].t = "write" /\ i > 1
    /\ IsFrame(log[i - 1]) /\ log[i - 1].frame.opcode = 9

\* C35: while the stage is 'handshake' no frame has been taken from rx and
\* onMessage has not been called (the buffer still holds every byte the
\* socket delivered); and in every run the 'handshake' event comes before
\* the first frame taken, the first onMessage call and the first Pong write.
C35_NoMessageBeforeUpgrade ==
    /\ stage = "handshake" =>
          /\ \A i \in 1..Len(log) : log[i].t \notin {"frame", "msg", "out"}
          /\ (sock = "open" /\ hs = Null) =>
                rx \o inflight = script.resp \o FrameBytes(script.frames)
    /\ \A i \in 1..Len(log) :
          (IsFrame(log[i]) \/ IsMsg(log[i]) \/ IsPongWrite(i)) =>
              \E j \in 1..(i - 1) : IsEvent(j, "handshake")

\* a run in which, after the 'handshake' event, a message was dispatched
\* and a Ping answered
C35_Witness ==
    \E j, i, k \in 1..Len(log) :
        /\ j < i /\ j < k
        /\ IsEvent(j, "handshake")
        /\ IsMsg(log[i])
        /\ IsPongWrite(k) /\ log[k].sent


\* the frame entries that a step adds to log
TakenInStep ==
    SelectSeq(SubSeq(log', Len(log) + 1, Len(log')), IsFrame)

\* the least number of bytes that the frames of fs take on the wire: two
\* header bytes and the payload each
RECURSIVE LeastBytes(_)
LeastBytes(fs) ==
    IF fs = <<>> THEN 0
    ELSE 2 + Len(Head(fs).frame.payload) + LeastBytes(Tail(fs))

\* the buffer that the frame loop of a step starts on: rx and the chunk in
\* the stage 'frames', the bytes kept at line 424 in the delivery that
\* completes the upgrade, and no loop otherwise
LoopStartsOn ==
    IF stage = "frames"
    THEN rx \o SubSeq(inflight, 1, Len(inflight) - Len(inflight'))
    ELSE IF stage' = "frames" THEN hs'.rx
    ELSE <<>>

LoopShrinks ==
    /\ Len(rx') + LeastBytes(TakenInStep) <= Len(LoopStartsOn)
    /\ TakenInStep # <<>> => Len(rx') + 2 <= Len(LoopStartsOn)

\* C36: the decode loop of a delivery ends: every frame it takes removes at
\* least two bytes (its header) and its payload from rx, so the loop takes
\* no more frames than the buffer it starts on has pairs of bytes, and
\* leaves a strictly shorter rx whenever it took a frame.
C36_LoopTerminates ==
    [][(stage' = "frames" /\ Len(inflight') <= Len(inflight)) => LoopShrinks]_vars

\* a delivery in the stage 'frames' that completed two frames: the loop
\* took both from rx and left it empty
C36_Witness ==
    /\ dlv # Null /\ dlv.stage = "frames" /\ stage = "frames"
    /\ Len(FramesSince(dlv.at)) = 2
    /\ dlv.whole + 2 = Whole
    /\ rx = <<>> /\ inflight = <<>>


\* what a step of 'server up' did when the pidfile named a live process:
\* nothing
UpFoundLive ==
    /\ server'.alive = server.alive /\ server'.spawned = server.spawned
    /\ server'.pidfile = server.pidfile

\* ... and when it did not: one process more, its pid in the pidfile
UpSpawnedOne ==
    \E child \in Pids \ server.alive :
        /\ server'.alive = server.alive \cup {child}
        /\ server'.spawned = server.spawned \cup {child}
        /\ server'.pidfile = [exists |-> TRUE, pid |-> child]

\* ... or, java not having started, no process more and a pidfile that
\* names none
UpSpawnedNone ==
    /\ server'.alive = server.alive /\ server'.spawned = server.spawned
    /\ server'.pidfile.exists /\ serverReadPid(server'.pidfile) = 0

PidfileLive ==
    /\ serverReadPid(server.pidfile) # 0
    /\ pidAlive(serverReadPid(server.pidfile), server.alive)

\* a step of 'server down' on a managed server kills the process of the
\* pidfile and removes the file
DownKills ==
    (server'.last = "down" /\ PidfileLive) =>
        /\ ~pidAlive(serverReadPid(server.pidfile), server'.alive)
        /\ server'.pidfile = NoPidfile

\* at most one live process was started by 'server up', and a pidfile that
\* exists names it
OneManaged ==
    /\ Cardinality(server.spawned) <= 1
    /\ (server.spawned # {} /\ server.pidfile.exists) =>
          server.spawned = {serverReadPid(server.pidfile)}

C38_KeepsFrameBytes ==
    (eaws # Null /\ eaws.last.did = "Connect" /\ eaws.g_connected) =>
        eaws.g_rx = EaReadWithResponse(eaws, eaws.last.net)

=============================================================================
